---- MODULE Spec2Model ----
(***************************************************************************)
(* A model of the shared registries and built-in plugins of the proxy:     *)
(*   - the plugin registry (internal/plugins/registry.go): four chains,    *)
(*     Register*, Apply*, Notify*, guarded by a sync.RWMutex;              *)
(*   - the provider registry (internal/providers/registry.go);             *)
(*   - the Anthropic-native adapter (internal/providers/anthropic.go);     *)
(*   - the built-in plugins (internal/plugins/builtin).                    *)
(* Each subsystem has its own specification; the variables of the other   *)
(* subsystems stay at their initial values under it.                       *)
(***************************************************************************)
EXTENDS Integers, Sequences, FiniteSets, TLC

VARIABLES
    requestTransformers,   \* Registry.requestTransformers  []RequestTransformer
    responseTransformers,  \* Registry.responseTransformers []ResponseTransformer
    streamTransformers,    \* Registry.streamTransformers   []StreamTransformer
    metadataPlugins,       \* Registry.metadataPlugins      []MetadataPlugin
    last,                  \* what the most recent Apply*/Notify* call was given and returned
    mu,                    \* Registry.mu sync.RWMutex: its writer and its readers
    pc,                    \* where each goroutine is in its call on the plugin registry
    call,                  \* the call each goroutine is making
    rd,                    \* the range loop of each reading goroutine
    providers,             \* providers.Registry.providers map[string]Provider
    pgo,                   \* each goroutine's call on the provider registry
    fatal,                 \* the runtime has ended the process (fatal error)
    streamState,           \* the *StreamState of one upstream connection
    hook,                  \* the adapter hook called last: what it was given and returned
    injector,              \* the SystemPromptInjectorPlugin: systemPrompt, enabled
    filter,                \* the ResponseFilterPlugin: filterWords, replacement, enabled
    built,                 \* the built-in plugin call made last: what it was given and returned
    startTimes,            \* TokenCounterPlugin.startTimes map[string]time.Time
    tasks,                 \* where each request's task is in OnRequest / OnResponse
    pending,               \* the ids whose OnRequest has returned and whose OnResponse has not
    down,                  \* the runtime has ended the process on a map race
    plast,                 \* the call on the provider registry made last, and its result
    regLog,                \* the providers Register was called with, in the order of the calls
    sent,                  \* the events the upstream has sent on one streaming connection
    emitted,               \* the events written to the client on that connection
    conn,                  \* the upstream connection: "open" or "closed"
    execution,             \* the Execute call made last: workflow, environment, outcome
    config,                \* the configuration the config.Manager holds
    loaded,                \* the configuration as it was loaded at startup
    configResponse,        \* the body of the last /api/config response
    stats,                 \* webui Server.stats: the Stats the web UI keeps
    statsMu,               \* Stats.mu sync.RWMutex: its writer and its readers
    stasks,                \* where each task is in LogRequest / handleStats
    statsResponse,         \* the StatsResponse a handleStats in progress is encoding
    logged,                \* the requests of the LogRequest calls that have returned, in order
    validation,            \* the `config validate` run last: the configuration and the result
    run,                   \* the Execute call in progress: the workflow, the context, the place
    substitution,          \* the substituteVariables call made last: arguments and result
    files,                 \* the workflow files in Manager.workflowDir, by file name
    mlast,                 \* the call on the workflow Manager made last, and its result
    stored                 \* by name, the workflow of the last Save, when no Delete followed it

pluginVars == <<requestTransformers, responseTransformers, streamTransformers,
                metadataPlugins, last>>

lockVars == <<mu, pc, call, rd>>

providerVars == <<providers, pgo, fatal>>

adapterVars == <<streamState, hook>>

builtinVars == <<injector, filter, built>>

counterVars == <<startTimes, tasks, pending, down>>

\* the variables of the subsystems modelled further down
registryVars == <<plast, regLog>>

streamVars == <<sent, emitted, conn>>

workflowVars == <<execution>>

webVars == <<config, loaded, configResponse>>

statsVars == <<stats, statsMu, stasks, statsResponse, logged>>

validateVars == <<validation>>

runVars == <<run>>

substVars == <<substitution>>

storeVars == <<files, mlast, stored>>

lateVars == <<statsVars, validateVars, runVars, substVars, storeVars>>

moreVars == <<counterVars, registryVars, streamVars, workflowVars, webVars, lateVars>>

vars == <<pluginVars, lockVars, providerVars, adapterVars, builtinVars, moreVars>>

\* what the calls on the plugin registry taken one at a time leave alone
notPlugins == <<lockVars, providerVars, adapterVars, builtinVars, moreVars>>
\* what the goroutines sharing the plugin registry leave alone
notLock == <<last, providerVars, adapterVars, builtinVars, moreVars>>
\* what the calls on the provider registry leave alone
notProviders == <<pluginVars, lockVars, adapterVars, builtinVars, moreVars>>
\* what the adapter hooks leave alone
notAdapter == <<pluginVars, lockVars, providerVars, builtinVars, moreVars>>
\* what the built-in plugins leave alone
notBuiltin == <<pluginVars, lockVars, providerVars, adapterVars, moreVars>>
\* what the token counter leaves alone
notCounter == <<pluginVars, lockVars, providerVars, adapterVars, builtinVars, registryVars,
                streamVars, workflowVars,
                webVars, lateVars>>
\* what the calls on the provider registry taken one at a time leave alone
notRegistry == <<pluginVars, lockVars, pgo, fatal, adapterVars, builtinVars, counterVars,
                 streamVars, workflowVars,
                 webVars, lateVars>>
\* what a streaming response through the adapter leaves alone
notStream == <<pluginVars, lockVars, providerVars, hook, builtinVars, counterVars, registryVars,
               workflowVars,
               webVars, lateVars>>
\* what the web UI's /api/config leaves alone
notWeb == <<pluginVars, lockVars, providerVars, adapterVars, builtinVars, counterVars,
            registryVars, streamVars, workflowVars, lateVars>>
\* what the web UI's statistics leave alone
notStats == <<pluginVars, lockVars, providerVars, adapterVars, builtinVars, counterVars,
              registryVars, streamVars, workflowVars, webVars, validateVars, runVars,
              substVars, storeVars>>
\* what `config validate` leaves alone
notValidate == <<pluginVars, lockVars, providerVars, adapterVars, builtinVars, counterVars,
                 registryVars, streamVars, workflowVars, webVars, statsVars, runVars,
                 substVars, storeVars>>
\* what an Execute taken step by step leaves alone
notRun == <<pluginVars, lockVars, providerVars, adapterVars, builtinVars, counterVars,
            registryVars, streamVars, workflowVars, webVars, statsVars, validateVars,
            substVars, storeVars>>
\* what substituteVariables leaves alone
notSubst == <<pluginVars, lockVars, providerVars, adapterVars, builtinVars, counterVars,
              registryVars, streamVars, workflowVars, webVars, statsVars, validateVars,
              runVars, storeVars>>
\* what the workflow Manager leaves alone
notStore == <<pluginVars, lockVars, providerVars, adapterVars, builtinVars, counterVars,
              registryVars, streamVars, workflowVars, webVars, statsVars, validateVars,
              runVars, substVars>>
\* what the workflow executor leaves alone
notWorkflow == <<pluginVars, lockVars, providerVars, adapterVars, builtinVars, counterVars,
                 registryVars, streamVars,
                 webVars, lateVars>>

(***************************************************************************)
(* Bounds                                                                  *)
(***************************************************************************)
\* the number of Register* calls made on one plugin registry
MaxRegistered == 3
\* the number of Register* calls made while goroutines share the plugin registry
MaxLockRegistered == 2

(***************************************************************************)
(* Plugins.  A plugin is known by its name.  The same plugin may be        *)
(* registered more than once, and then a chain holds equal priorities.     *)
(***************************************************************************)
Plugins == {"t10", "t50", "t1000"}

Nil == "nil"
NoPlugin == "none"

\* Plugin.Priority(): the plugin-declared integer
Priority(p) ==
    CASE p = "t10"   -> 10
      [] p = "t50"   -> 50
      [] p = "t1000" -> 1000

\* Plugin.Enabled(ctx): a predicate of the context of the call; a context is
\* known here by the set of plugins it enables.
Contexts == SUBSET Plugins
Enabled(p, ctx) == p \in ctx

\* The bodies a caller hands in; a body is a sequence of marks.
Inputs == {<<>>, <<"in">>}

\* RequestTransformer.TransformRequest, ResponseTransformer.TransformResponse and
\* StreamTransformer.TransformChunk of a plugin that does not fail: each plugin
\* leaves its own mark at the end of the body, so that the body tells which
\* plugins ran on it and in which order.
Transform(p, body) == Append(body, p)

(***************************************************************************)
(* sort.Slice(chain, less) with less(i, j) = Priority(i) < Priority(j).    *)
(* sort.Slice is not stable: the result is some permutation of the slice   *)
(* in which no element precedes one of smaller priority.                   *)
(***************************************************************************)
PermutationsOf(n) ==
    {f \in [1..n -> 1..n] : \A i, j \in 1..n : i /= j => f[i] /= f[j]}

IsSortedByPriority(s) ==
    \A i \in 1..(Len(s) - 1) : Priority(s[i]) <= Priority(s[i + 1])

sortSliceUnsorted(s) == {s}
sortSlice(s) ==
    {t \in {[i \in 1..Len(s) |-> s[f[i]]] : f \in PermutationsOf(Len(s))} :
        IsSortedByPriority(t)}

sortRequestTransformers(s) == sortSlice(s)
sortResponseTransformers(s) == sortSlice(s)
sortStreamTransformers(s) == sortSlice(s)

(***************************************************************************)
(* The loop of an Apply* call: run the chain from position i on, with the  *)
(* body so far and the plugins invoked so far.  A plugin of `failing`      *)
(* returns an error: the call returns (nil, error) at once.  The answer    *)
(* is the body, the plugin whose error is returned, and the plugins whose  *)
(* Transform* was called, in the order of the calls.                       *)
(***************************************************************************)
\* a loop that goes on after a failure, with the bytes it had before it
RECURSIVE ApplyLoopFailOpen(_, _, _, _, _, _)
ApplyLoopFailOpen(chain, ctx, failing, i, result, invoked) ==
    IF i > Len(chain)
    THEN [body |-> result, err |-> NoPlugin, invoked |-> invoked]
    ELSE IF ~Enabled(chain[i], ctx)
    THEN ApplyLoopFailOpen(chain, ctx, failing, i + 1, result, invoked)
    ELSE ApplyLoopFailOpen(chain, ctx, failing, i + 1,
                   IF chain[i] \in failing THEN result ELSE Transform(chain[i], result),
                   Append(invoked, chain[i]))

\* a loop that never asks Enabled
RECURSIVE ApplyLoopAll(_, _, _, _, _, _)
ApplyLoopAll(chain, ctx, failing, i, result, invoked) ==
    IF i > Len(chain)
    THEN [body |-> result, err |-> NoPlugin, invoked |-> invoked]
    ELSE IF chain[i] \in failing
    THEN [body |-> Nil, err |-> chain[i], invoked |-> Append(invoked, chain[i])]
    ELSE ApplyLoopAll(chain, ctx, failing, i + 1,
                      Transform(chain[i], result), Append(invoked, chain[i]))

RECURSIVE ApplyLoop(_, _, _, _, _, _)
ApplyLoop(chain, ctx, failing, i, result, invoked) ==
    IF i > Len(chain)
    THEN [body |-> result, err |-> NoPlugin, invoked |-> invoked]
    ELSE IF ~Enabled(chain[i], ctx)
    THEN ApplyLoop(chain, ctx, failing, i + 1, result, invoked)
    ELSE IF chain[i] \in failing
    THEN [body |-> Nil, err |-> chain[i], invoked |-> Append(invoked, chain[i])]
    ELSE ApplyLoop(chain, ctx, failing, i + 1,
                   Transform(chain[i], result), Append(invoked, chain[i]))

\* the observers a Notify* call calls, in the order of the calls
NotifyLoop(chain, ctx) == SelectSeq(chain, LAMBDA p : Enabled(p, ctx))

(***************************************************************************)
(* Goroutines that share the plugin registry.                              *)
(***************************************************************************)
Goroutines == {"g1", "g2", "g3"}
NoGoroutine == "none"
Idle == [name |-> "none"]
NoRange == [k |-> 0, i |-> 0, seen |-> <<>>]

InitLock ==
    /\ mu = [w |-> NoGoroutine, readers |-> {}]
    /\ pc = [g \in Goroutines |-> "idle"]
    /\ call = [g \in Goroutines |-> Idle]
    /\ rd = [g \in Goroutines |-> NoRange]

(***************************************************************************)
(* The provider registry: a map from provider name to adapter, with no     *)
(* lock.  Its goroutines start idle on an empty map.                       *)
(***************************************************************************)
ProvGoroutines == {"h1", "h2"}
ProvIdle == [pc |-> "idle", op |-> "none"]
EmptyMap == [n \in {} |-> Nil]

\* providers.NewRegistry
InitProviders ==
    /\ providers = EmptyMap
    /\ pgo = [g \in ProvGoroutines |-> ProvIdle]
    /\ fatal = FALSE

(***************************************************************************)
(* The adapters' hooks.  Bodies and chunks are byte strings; a StreamState *)
(* is what a connection's earlier chunks left.                             *)
(***************************************************************************)
\* the length of a body or chunk handed to a hook
MaxBytes == 2
Bytes == {"a", "b"}
ByteStrings == UNION {[1..n -> Bytes] : n \in 0..MaxBytes}

\* ContentBlockState, of a text block and of a tool_use block
ContentBlockStates ==
    {[Type |-> "text", StartSent |-> TRUE, StopSent |-> FALSE, ToolCallID |-> "",
      ToolCallIndex |-> 0, ToolName |-> "", Arguments |-> ""],
     [Type |-> "tool_use", StartSent |-> TRUE, StopSent |-> TRUE, ToolCallID |-> "tc_1",
      ToolCallIndex |-> 0, ToolName |-> "get_time", Arguments |-> "{}"]}

\* StreamState: a fresh one, and ones in the middle of a response
StreamStates ==
    {[MessageStartSent |-> FALSE, MessageID |-> "", Model |-> "", InitialUsage |-> Nil,
      ContentBlocks |-> <<>>, CurrentIndex |-> 0]}
    \cup [MessageStartSent : {TRUE}, MessageID : {"msg_1"}, Model : {"m"},
          InitialUsage : {Nil, "usage"},
          ContentBlocks : {<<>>} \cup {<<b>> : b \in ContentBlockStates},
          CurrentIndex : {0, 1}]

\* the nil *StreamState
NilState == [nil |-> TRUE]

NoHook == [name |-> "none"]

IdleAdapter ==
    /\ streamState = NilState
    /\ hook = NoHook

(***************************************************************************)
(* The built-in plugins, before they are constructed.                      *)
(***************************************************************************)
NoBuilt == [name |-> "none"]

IdleBuiltin ==
    /\ injector = [systemPrompt |-> <<>>, enabled |-> FALSE]
    /\ filter = [filterWords |-> <<>>, replacement |-> <<>>, enabled |-> FALSE]
    /\ built = NoBuilt

(***************************************************************************)
(* The token counter, before any request.                                  *)
(***************************************************************************)
Tasks == {"k1", "k2"}
TaskIdle == [pc |-> "idle", id |-> ""]
NoTimes == [n \in {} |-> 0]

\* NewTokenCounterPlugin: startTimes = make(map[string]time.Time)
IdleCounter ==
    /\ startTimes = NoTimes
    /\ tasks = [t \in Tasks |-> TaskIdle]
    /\ pending = {}
    /\ down = FALSE

\* the provider registry taken one call at a time: no call yet
NoProviderCall == [op |-> "none"]

IdleRegistry ==
    /\ plast = NoProviderCall
    /\ regLog = <<>>

\* no streaming response yet
IdleStream ==
    /\ sent = <<>>
    /\ emitted = <<>>
    /\ conn = "open"

\* no workflow has been executed
NoExecution == [op |-> "none"]

IdleWorkflow == execution = NoExecution

\* the web UI before any configuration is loaded
NoConfig == [Providers |-> <<>>, APIKey |-> <<>>]
NoResponse == [op |-> "none"]

IdleWeb ==
    /\ config = NoConfig
    /\ loaded = NoConfig
    /\ configResponse = NoResponse

\* NewServer: no request logged, nobody in LogRequest or handleStats
StatsTasks == {"s1", "s2"}
NewStats ==
    [TotalRequests |-> 0, TotalTokens |-> 0, RequestsByModel |-> <<>>,
     TokensByModel |-> <<>>, RecentRequests |-> <<>>]
NoStatsResponse == [op |-> "none"]
StatsTaskIdle == [pc |-> "idle"]

IdleStats ==
    /\ stats = NewStats
    /\ statsMu = [writer |-> "none", readers |-> {}]
    /\ stasks = [t \in StatsTasks |-> StatsTaskIdle]
    /\ statsResponse = NoStatsResponse
    /\ logged = <<>>

\* no `config validate` yet
NoValidation == [op |-> "none"]
IdleValidate == validation = NoValidation

\* no Execute in progress
NoRun == [op |-> "none"]
IdleRun == run = NoRun

\* no substituteVariables call yet
NoSubstitution == [op |-> "none"]
IdleSubst == substitution = NoSubstitution

\* an empty workflow directory, no call on the Manager yet
NoManagerCall == [op |-> "none"]
IdleStore ==
    /\ files = <<>>
    /\ mlast = NoManagerCall
    /\ stored = <<>>

IdleLate ==
    /\ IdleStats
    /\ IdleValidate
    /\ IdleRun
    /\ IdleSubst
    /\ IdleStore

\* the subsystems modelled further down, at rest
IdleMore ==
    /\ IdleCounter
    /\ IdleRegistry
    /\ IdleStream
    /\ IdleWorkflow
    /\ IdleWeb
    /\ IdleLate

(***************************************************************************)
(* The plugin registry, one call at a time (each call holds r.mu from its  *)
(* first statement to its return; SpecLock below models the lock itself).  *)
(***************************************************************************)
NoCall == [op |-> "none"]

Registered ==
    Len(requestTransformers) + Len(responseTransformers)
        + Len(streamTransformers) + Len(metadataPlugins)

\* NewRegistry
NewRegistry ==
    /\ requestTransformers = <<>>
    /\ responseTransformers = <<>>
    /\ streamTransformers = <<>>
    /\ metadataPlugins = <<>>

InitPlugins ==
    /\ NewRegistry
    /\ last = NoCall
    /\ InitLock
    /\ IdleMore
    /\ InitProviders
    /\ IdleAdapter
    /\ IdleBuiltin

RegisterRequestTransformer(plugin) ==
    /\ last = NoCall
    /\ Registered < MaxRegistered
    /\ requestTransformers' \in sortRequestTransformers(Append(requestTransformers, plugin))
    /\ UNCHANGED <<last, responseTransformers, streamTransformers, metadataPlugins>>
    /\ UNCHANGED notPlugins

RegisterResponseTransformer(plugin) ==
    /\ last = NoCall
    /\ Registered < MaxRegistered
    /\ responseTransformers' \in sortResponseTransformers(Append(responseTransformers, plugin))
    /\ UNCHANGED <<last, requestTransformers, streamTransformers, metadataPlugins>>
    /\ UNCHANGED notPlugins

RegisterStreamTransformer(plugin) ==
    /\ last = NoCall
    /\ Registered < MaxRegistered
    /\ streamTransformers' \in sortStreamTransformers(Append(streamTransformers, plugin))
    /\ UNCHANGED <<last, requestTransformers, responseTransformers, metadataPlugins>>
    /\ UNCHANGED notPlugins

RegisterMetadataPlugin(plugin) ==
    /\ last = NoCall
    /\ Registered < MaxRegistered
    /\ metadataPlugins' = Append(metadataPlugins, plugin)
    /\ UNCHANGED <<last, requestTransformers, responseTransformers, streamTransformers>>
    /\ UNCHANGED notPlugins

Chains == <<requestTransformers, responseTransformers, streamTransformers, metadataPlugins>>

Returned(op, ctx, failing, input, r) ==
    [op |-> op, ctx |-> ctx, failing |-> failing, input |-> input,
     body |-> r.body, err |-> r.err, invoked |-> r.invoked]

\* a request chain that goes on after a failing transformer
ApplyRequestTransformersFailOpen(ctx, failing, request) ==
    /\ last = NoCall
    /\ last' = Returned("ApplyRequestTransformers", ctx, failing, request,
                        ApplyLoopFailOpen(requestTransformers, ctx, failing, 1, request, <<>>))
    /\ UNCHANGED Chains
    /\ UNCHANGED notPlugins

ApplyRequestTransformers(ctx, failing, request) ==
    /\ last = NoCall
    /\ last' = Returned("ApplyRequestTransformers", ctx, failing, request,
                        ApplyLoop(requestTransformers, ctx, failing, 1, request, <<>>))
    /\ UNCHANGED Chains
    /\ UNCHANGED notPlugins

ApplyResponseTransformers(ctx, failing, response) ==
    /\ last = NoCall
    /\ last' = Returned("ApplyResponseTransformers", ctx, failing, response,
                        ApplyLoop(responseTransformers, ctx, failing, 1, response, <<>>))
    /\ UNCHANGED Chains
    /\ UNCHANGED notPlugins

ApplyStreamTransformers(ctx, failing, chunk) ==
    /\ last = NoCall
    /\ last' = Returned("ApplyStreamTransformers", ctx, failing, chunk,
                        ApplyLoop(streamTransformers, ctx, failing, 1, chunk, <<>>))
    /\ UNCHANGED Chains
    /\ UNCHANGED notPlugins

\* OnRequest / OnResponse return nothing: the call has no body and no error
NotifyRequest(ctx) ==
    /\ last = NoCall
    /\ last' = Returned("NotifyRequest", ctx, {}, Nil,
                        [body |-> Nil, err |-> NoPlugin,
                         invoked |-> NotifyLoop(metadataPlugins, ctx)])
    /\ UNCHANGED Chains
    /\ UNCHANGED notPlugins

NotifyResponse(ctx) ==
    /\ last = NoCall
    /\ last' = Returned("NotifyResponse", ctx, {}, Nil,
                        [body |-> Nil, err |-> NoPlugin,
                         invoked |-> NotifyLoop(metadataPlugins, ctx)])
    /\ UNCHANGED Chains
    /\ UNCHANGED notPlugins

\* the caller takes what the call returned; the registry is free again
Return ==
    /\ last /= NoCall
    /\ last' = NoCall
    /\ UNCHANGED Chains
    /\ UNCHANGED notPlugins

NextPlugins ==
    \/ Return
    \/ \E p \in Plugins : RegisterRequestTransformer(p)
    \/ \E p \in Plugins : RegisterResponseTransformer(p)
    \/ \E p \in Plugins : RegisterStreamTransformer(p)
    \/ \E p \in Plugins : RegisterMetadataPlugin(p)
    \/ \E ctx \in Contexts, x \in Inputs : \E failing \in SUBSET ctx :
          ApplyRequestTransformers(ctx, failing, x)
    \/ \E ctx \in Contexts, x \in Inputs : \E failing \in SUBSET ctx :
          ApplyResponseTransformers(ctx, failing, x)
    \/ \E ctx \in Contexts, x \in Inputs : \E failing \in SUBSET ctx :
          ApplyStreamTransformers(ctx, failing, x)
    \/ \E ctx \in Contexts : NotifyRequest(ctx)
    \/ \E ctx \in Contexts : NotifyResponse(ctx)

Spec == InitPlugins /\ [][NextPlugins]_vars

(***************************************************************************)
(* Properties of the plugin registry                                       *)
(***************************************************************************)
ApplyOps == {"ApplyRequestTransformers", "ApplyResponseTransformers",
             "ApplyStreamTransformers"}
NotifyOps == {"NotifyRequest", "NotifyResponse"}

\* the chain a call iterates
ChainOf(op) ==
    CASE op = "ApplyRequestTransformers"  -> requestTransformers
      [] op = "ApplyResponseTransformers" -> responseTransformers
      [] op = "ApplyStreamTransformers"   -> streamTransformers
      [] op \in NotifyOps                 -> metadataPlugins

Elems(s) == {s[i] : i \in 1..Len(s)}

DistinctPriorities(s) ==
    \A i, j \in 1..Len(s) : i /= j => Priority(s[i]) /= Priority(s[j])

\* the plugins of S, by ascending priority (S holds no two of one priority)
RECURSIVE Ascending(_)
Ascending(S) ==
    IF S = {} THEN <<>>
    ELSE LET m == CHOOSE p \in S : \A q \in S : Priority(p) <= Priority(q)
         IN  <<m>> \o Ascending(S \ {m})

IsPrefix(s, t) == Len(s) <= Len(t) /\ SubSeq(t, 1, Len(s)) = s

\* C1: for request, response and stream transformers of pairwise distinct
\* priorities, however they were registered, a call in which no transformer
\* fails applies the enabled ones by ascending priority, each on the output
\* of the one before: the body returned is the input with the marks of the
\* enabled transformers in ascending priority order (t1000(t50(t10(input)))).
C1_AppliedInPriorityOrder ==
    (last.op \in ApplyOps /\ DistinctPriorities(ChainOf(last.op))
        /\ last.err = NoPlugin)
    => LET order == Ascending(Elems(ChainOf(last.op)) \cap last.ctx)
       IN  /\ last.invoked = order
           /\ last.body = last.input \o order

C1_Witness ==
    /\ last.op = "ApplyRequestTransformers"
    /\ Elems(requestTransformers) = {"t10", "t50", "t1000"}
    /\ Len(requestTransformers) = 3
    /\ last.ctx = Plugins
    /\ last.input = <<"in">>
    /\ last.body = <<"in", "t10", "t50", "t1000">>

\* C2: in every chain, a call never invokes a plugin whose Enabled(ctx) is
\* false for the context of that call, it invokes only plugins of its chain,
\* and a call on a chain all of whose plugins are disabled invokes nothing and
\* returns its input with no error; Enabled is asked with the context of the
\* call, so what one call found does not carry over to the next.
C2_DisabledNeverInvoked ==
    (last.op \in ApplyOps \cup NotifyOps)
    => /\ \A k \in 1..Len(last.invoked) :
              /\ Enabled(last.invoked[k], last.ctx)
              /\ last.invoked[k] \in Elems(ChainOf(last.op))
       /\ (Elems(ChainOf(last.op)) \cap last.ctx = {})
              => /\ last.invoked = <<>>
                 /\ last.err = NoPlugin
                 /\ last.op \in ApplyOps => last.body = last.input

C2_Witness ==
    /\ last.op = "ApplyResponseTransformers"
    /\ Len(responseTransformers) = 2
    /\ last.ctx = Plugins \ Elems(responseTransformers)
    /\ last.ctx /= {}
    /\ last.body = last.input
    /\ last.invoked = <<>>

\* C3: request transformers are fail-closed: when an enabled request
\* transformer returns an error, ApplyRequestTransformers returns that error
\* and no body, the failing transformer is the last one invoked, and no
\* transformer of a higher priority value is invoked.
C3_RequestFailClosed ==
    (last.op = "ApplyRequestTransformers"
        /\ Elems(requestTransformers) \cap last.ctx \cap last.failing /= {})
    => /\ last.err \in last.failing
       /\ last.body = Nil
       /\ last.invoked /= <<>>
       /\ last.invoked[Len(last.invoked)] = last.err
       /\ \A k \in 1..(Len(last.invoked) - 1) : last.invoked[k] \notin last.failing
       /\ \A k \in 1..Len(last.invoked) :
              Priority(last.invoked[k]) <= Priority(last.err)

C3_Witness ==
    /\ last.op = "ApplyRequestTransformers"
    /\ requestTransformers = <<"t10", "t50", "t1000">>
    /\ last.ctx = Plugins
    /\ last.failing = {"t50"}
    /\ last.invoked = <<"t10", "t50">>
    /\ last.body = Nil

\* C4 (as claimed): response and stream transformers are fail-open: when a
\* response or stream transformer returns an error, the caller still gets a
\* body, and it carries the bytes as they were before that transformer ran.
C4_ResponseStreamFailOpen ==
    (last.op \in {"ApplyResponseTransformers", "ApplyStreamTransformers"}
        /\ Elems(ChainOf(last.op)) \cap last.ctx \cap last.failing /= {})
    => /\ last.body /= Nil
       /\ \E k \in 1..Len(last.invoked) :
              /\ last.invoked[k] \in last.failing
              /\ \A j \in 1..(k - 1) : last.invoked[j] \notin last.failing
              /\ IsPrefix(last.input \o SubSeq(last.invoked, 1, k - 1), last.body)

\* C5 (as claimed): metadata observers of pairwise distinct priorities, however
\* they were registered, are invoked by NotifyRequest and NotifyResponse by
\* ascending priority.
C5_MetadataPriorityOrder ==
    (last.op \in NotifyOps /\ DistinctPriorities(metadataPlugins))
    => last.invoked = Ascending(Elems(metadataPlugins) \cap last.ctx)

(***************************************************************************)
(* The plugin registry shared by goroutines: every method takes r.mu, the  *)
(* Register* methods with Lock, all others with RLock, and releases it on  *)
(* return (defer).  A method is a sequence of steps here: the lock call,   *)
(* the statements under the lock, the unlock.                              *)
(***************************************************************************)
RegisterNames == {"RegisterRequestTransformer", "RegisterResponseTransformer",
                  "RegisterStreamTransformer", "RegisterMetadataPlugin"}
ReadNames == {"ApplyRequestTransformers", "ApplyResponseTransformers",
              "ApplyStreamTransformers", "NotifyRequest", "NotifyResponse",
              "ListPlugins"}

\* the chain (its place in Chains) a Register* method appends to
RegisterChain(name) ==
    CASE name = "RegisterRequestTransformer"  -> 1
      [] name = "RegisterResponseTransformer" -> 2
      [] name = "RegisterStreamTransformer"   -> 3
      [] name = "RegisterMetadataPlugin"      -> 4

\* the chains a reading method ranges over, in the order it does
ReadChains(name) ==
    CASE name = "ApplyRequestTransformers"  -> <<1>>
      [] name = "ApplyResponseTransformers" -> <<2>>
      [] name = "ApplyStreamTransformers"   -> <<3>>
      [] name = "NotifyRequest"             -> <<4>>
      [] name = "NotifyResponse"            -> <<4>>
      [] name = "ListPlugins"               -> <<1, 2, 3, 4>>

SetChain(k, v) ==
    /\ requestTransformers' = IF k = 1 THEN v ELSE requestTransformers
    /\ responseTransformers' = IF k = 2 THEN v ELSE responseTransformers
    /\ streamTransformers' = IF k = 3 THEN v ELSE streamTransformers
    /\ metadataPlugins' = IF k = 4 THEN v ELSE metadataPlugins

\* the Register* calls made so far, those yet to append included
LockRegistered ==
    Registered + Cardinality({g \in Goroutines : pc[g] \in {"Lock", "append"}})

InitLockSpec ==
    /\ NewRegistry
    /\ last = NoCall
    /\ InitLock
    /\ IdleMore
    /\ InitProviders
    /\ IdleAdapter
    /\ IdleBuiltin

\* The goroutines that make Register* calls and those that make Apply*,
\* Notify* and ListPlugins calls (goroutines are alike: which of them does
\* what is a matter of names only).
Registrars == {"g2", "g3"}
Readers == {"g1", "g2"}

\* a goroutine calls a Register* method: it is at r.mu.Lock()
RegisterCall(g, name) ==
    /\ pc[g] = "idle"
    /\ LockRegistered < MaxLockRegistered
    /\ pc' = [pc EXCEPT ![g] = "Lock"]
    /\ call' = [call EXCEPT ![g] = [name |-> name]]
    /\ UNCHANGED <<Chains, notLock, mu, rd>>

\* r.mu.Lock() taken as if it were r.mu.RLock()
MuLockShared(g) ==
    /\ pc[g] = "Lock"
    /\ mu.w = NoGoroutine
    /\ mu' = [mu EXCEPT !.readers = @ \cup {g}]
    /\ pc' = [pc EXCEPT ![g] = "append"]
    /\ UNCHANGED <<Chains, notLock, call, rd>>

\* r.mu.Lock() returns once no goroutine holds the lock in either mode
MuLock(g) ==
    /\ pc[g] = "Lock"
    /\ mu.w = NoGoroutine
    /\ mu.readers = {}
    /\ mu' = [mu EXCEPT !.w = g]
    /\ pc' = [pc EXCEPT ![g] = "append"]
    /\ UNCHANGED <<Chains, notLock, call, rd>>

\* r.xs = append(r.xs, plugin), plugin being the argument of the call;
\* RegisterMetadataPlugin returns after it
RegisterAppend(g, plugin) ==
    /\ pc[g] = "append"
    /\ LET k == RegisterChain(call[g].name)
       IN  /\ SetChain(k, Append(Chains[k], plugin))
           /\ pc' = [pc EXCEPT ![g] = IF k = 4 THEN "Unlock" ELSE "sort"]
    /\ UNCHANGED <<notLock, mu, call, rd>>

\* r.sortXs()
RegisterSort(g) ==
    /\ pc[g] = "sort"
    /\ LET k == RegisterChain(call[g].name)
       IN  \E sorted \in sortSlice(Chains[k]) : SetChain(k, sorted)
    /\ pc' = [pc EXCEPT ![g] = "Unlock"]
    /\ UNCHANGED <<notLock, mu, call, rd>>

\* defer r.mu.Unlock()
MuUnlock(g) ==
    /\ pc[g] = "Unlock"
    /\ mu' = [w |-> IF mu.w = g THEN NoGoroutine ELSE mu.w, readers |-> mu.readers \ {g}]
    /\ pc' = [pc EXCEPT ![g] = "idle"]
    /\ call' = [call EXCEPT ![g] = Idle]
    /\ UNCHANGED <<Chains, notLock, rd>>

\* a goroutine calls an Apply*, Notify* or ListPlugins method: it is at r.mu.RLock()
ReadCall(g, name) ==
    /\ pc[g] = "idle"
    /\ pc' = [pc EXCEPT ![g] = "RLock"]
    /\ call' = [call EXCEPT ![g] = [name |-> name]]
    /\ UNCHANGED <<Chains, notLock, mu, rd>>

\* r.mu.RLock() returns once no goroutine holds the lock for writing
MuRLock(g) ==
    /\ pc[g] = "RLock"
    /\ mu.w = NoGoroutine
    /\ mu' = [mu EXCEPT !.readers = @ \cup {g}]
    /\ pc' = [pc EXCEPT ![g] = "range"]
    /\ rd' = [rd EXCEPT ![g] = [k |-> 1, i |-> 1, seen |-> <<>>]]
    /\ UNCHANGED <<Chains, notLock, call>>

\* one turn of `for _, plugin := range r.xs`: the next element, or the end of
\* the slice (and then the next slice of ListPlugins, or the return)
ReadRange(g) ==
    /\ pc[g] = "range"
    /\ LET ks == ReadChains(call[g].name)
           c == Chains[ks[rd[g].k]]
       IN  IF rd[g].i <= Len(c)
           THEN /\ rd' = [rd EXCEPT ![g] = [k |-> @.k, i |-> @.i + 1,
                                            seen |-> Append(@.seen, c[@.i])]]
                /\ pc' = pc
           ELSE IF rd[g].k < Len(ks)
           THEN /\ rd' = [rd EXCEPT ![g] = [k |-> @.k + 1, i |-> 1, seen |-> <<>>]]
                /\ pc' = pc
           ELSE /\ rd' = [rd EXCEPT ![g] = NoRange]
                /\ pc' = [pc EXCEPT ![g] = "RUnlock"]
    /\ UNCHANGED <<Chains, notLock, mu, call>>

\* an Apply* method returns (nil, err) from inside its loop
ReadReturnError(g) ==
    /\ pc[g] = "range"
    /\ call[g].name \in ApplyOps
    /\ rd[g].i > 1
    /\ pc' = [pc EXCEPT ![g] = "RUnlock"]
    /\ rd' = [rd EXCEPT ![g] = NoRange]
    /\ UNCHANGED <<Chains, notLock, mu, call>>

\* defer r.mu.RUnlock()
MuRUnlock(g) ==
    /\ pc[g] = "RUnlock"
    /\ mu' = [mu EXCEPT !.readers = @ \ {g}]
    /\ pc' = [pc EXCEPT ![g] = "idle"]
    /\ call' = [call EXCEPT ![g] = Idle]
    /\ UNCHANGED <<Chains, notLock, rd>>

NextLock ==
    \/ \E g \in Registrars, name \in RegisterNames : RegisterCall(g, name)
    \/ \E g \in Goroutines : MuLock(g)
    \/ \E g \in Goroutines, p \in Plugins : RegisterAppend(g, p)
    \/ \E g \in Goroutines : RegisterSort(g)
    \/ \E g \in Goroutines : MuUnlock(g)
    \/ \E g \in Readers, name \in ReadNames : ReadCall(g, name)
    \/ \E g \in Goroutines : MuRLock(g)
    \/ \E g \in Goroutines : ReadRange(g)
    \/ \E g \in Goroutines : ReadReturnError(g)
    \/ \E g \in Goroutines : MuRUnlock(g)

SpecLock == InitLockSpec /\ [][NextLock]_vars

\* a goroutine is between the return of r.mu.Lock() and r.mu.Unlock()
InRegister(g) == pc[g] \in {"append", "sort", "Unlock"}
\* a goroutine is between the return of r.mu.RLock() and r.mu.RUnlock()
InRead(g) == pc[g] \in {"range", "RUnlock"}

ConfigProviders ==
    {[Name |-> "anthropic", APIBase |-> "https://api.anthropic.com"],
     [Name |-> "openai", APIBase |-> "https://api.openai.com/v1"],
     [Name |-> "openai", APIBase |-> "https://example.com/v1"],
     [Name |-> "deepseek", APIBase |-> "https://api.deepseek.com"]}
ProviderNames == {c.Name : c \in ConfigProviders}
Endpoints == {c.APIBase : c \in ConfigProviders}

\* the names the switch of Initialize has a case for
InitializeCases == {"openrouter", "openai", "anthropic", "nvidia", "gemini", "ollama"}

\* New<X>Provider(cfgProvider): the adapter keeps the configuration it was
\* made from, and Name() answers its Name
NewProvider(cfgProvider) == cfgProvider
Name(provider) == provider.Name

\* url.Parse(apiBase) and strings.ToLower(u.Hostname()), on the endpoints above
Hostname(apiBase) ==
    CASE apiBase = "https://api.anthropic.com" -> "api.anthropic.com"
      [] apiBase = "https://api.openai.com/v1" -> "api.openai.com"
      [] apiBase = "https://example.com/v1" -> "example.com"
      [] apiBase = "https://api.deepseek.com" -> "api.deepseek.com"
      [] apiBase = "https://api.groq.com/openai/v1" -> "api.groq.com"
      [] apiBase = "http://LOCALHOST:11434" -> "localhost"

\* domainProviderMap, on the hostnames above
DomainProviderMap(domain) ==
    CASE domain = "api.anthropic.com" -> "anthropic"
      [] domain = "api.openai.com" -> "openai"
      [] domain = "localhost" -> "ollama"
      [] OTHER -> Nil

\* the goroutines that are between the two steps of a map write
MapWriters == {g \in ProvGoroutines : pgo[g].pc = "assigning"}

\* the map with the entry of a write in progress already in it
Written(g) ==
    [n \in DOMAIN providers \cup {Name(pgo[g].provider)} |->
        IF n = Name(pgo[g].provider) THEN pgo[g].provider ELSE providers[n]]

\* what a read of the map may find: the map as it is, and, when writes are in
\* progress, the map with one of them done
MapViews(g) == {providers} \cup {Written(w) : w \in MapWriters \ {g}}

\* Register(provider): r.providers[provider.Name()] = provider begins
Register(g, provider) ==
    /\ ~fatal
    /\ pgo[g].pc = "idle"
    /\ pgo' = [pgo EXCEPT ![g] = [pc |-> "mapassign", op |-> "Register",
                                  provider |-> provider, todo |-> <<>>]]
    /\ UNCHANGED <<providers, fatal, notProviders>>

\* Initialize(cfgProviders): the loop over the configuration begins
Initialize(g, cfgProviders) ==
    /\ ~fatal
    /\ pgo[g].pc = "idle"
    /\ pgo' = [pgo EXCEPT ![g] = [pc |-> "switch", op |-> "Initialize",
                                  todo |-> cfgProviders]]
    /\ UNCHANGED <<providers, fatal, notProviders>>

\* one turn of the loop of Initialize: the switch on cfgProvider.Name
InitializeSwitch(g) ==
    /\ ~fatal
    /\ pgo[g].pc = "switch"
    /\ IF pgo[g].todo = <<>>
       THEN pgo' = [pgo EXCEPT ![g] = ProvIdle]
       ELSE IF Head(pgo[g].todo).Name \in InitializeCases
       THEN pgo' = [pgo EXCEPT ![g] = [pc |-> "mapassign", op |-> "Initialize",
                                       provider |-> NewProvider(Head(pgo[g].todo)),
                                       todo |-> Tail(pgo[g].todo)]]
       ELSE pgo' = [pgo EXCEPT ![g] = [pc |-> "switch", op |-> "Initialize",
                                       todo |-> Tail(pgo[g].todo)]]
    /\ UNCHANGED <<providers, fatal, notProviders>>

\* the map write begins; the runtime may end the process when it finds
\* another write in progress ("concurrent map writes")
mapassignBegin(g) ==
    /\ ~fatal
    /\ pgo[g].pc = "mapassign"
    /\ pgo' = [pgo EXCEPT ![g].pc = "assigning"]
    /\ fatal' \in IF MapWriters /= {} THEN {FALSE, TRUE} ELSE {FALSE}
    /\ UNCHANGED <<providers, notProviders>>

\* the map write ends: the entry is in the map; Register returns
mapassignEnd(g) ==
    /\ ~fatal
    /\ pgo[g].pc = "assigning"
    /\ providers' = Written(g)
    /\ pgo' = [pgo EXCEPT ![g] = IF pgo[g].op = "Initialize"
                                 THEN [pc |-> "switch", op |-> "Initialize",
                                       todo |-> pgo[g].todo]
                                 ELSE ProvIdle]
    /\ UNCHANGED <<fatal, notProviders>>

\* Get(name) is called
Get(g, name) ==
    /\ ~fatal
    /\ pgo[g].pc = "idle"
    /\ pgo' = [pgo EXCEPT ![g] = [pc |-> "mapaccess", op |-> "Get", name |-> name]]
    /\ UNCHANGED <<providers, fatal, notProviders>>

\* GetByDomain(apiBase) is called: the domain's provider name, then r.Get
GetByDomain(g, apiBase) ==
    /\ ~fatal
    /\ pgo[g].pc = "idle"
    /\ pgo' = [pgo EXCEPT ![g] =
                  IF DomainProviderMap(Hostname(apiBase)) /= Nil
                  THEN [pc |-> "mapaccess", op |-> "GetByDomain",
                        name |-> DomainProviderMap(Hostname(apiBase))]
                  ELSE [pc |-> "returned", op |-> "GetByDomain",
                        provider |-> Nil, found |-> FALSE]]
    /\ UNCHANGED <<providers, fatal, notProviders>>

\* List() is called
List(g) ==
    /\ ~fatal
    /\ pgo[g].pc = "idle"
    /\ pgo' = [pgo EXCEPT ![g] = [pc |-> "maprange", op |-> "List"]]
    /\ UNCHANGED <<providers, fatal, notProviders>>

\* provider, exists := r.providers[name]
mapaccess(g) ==
    /\ ~fatal
    /\ pgo[g].pc = "mapaccess"
    /\ \/ \E m \in MapViews(g) :
             /\ pgo' = [pgo EXCEPT ![g] =
                           [pc |-> "returned", op |-> pgo[g].op,
                            provider |-> IF pgo[g].name \in DOMAIN m
                                         THEN m[pgo[g].name] ELSE Nil,
                            found |-> pgo[g].name \in DOMAIN m]]
             /\ fatal' = FALSE
       \/ /\ MapWriters \ {g} /= {}
          /\ fatal' = TRUE
          /\ pgo' = pgo
    /\ UNCHANGED <<providers, notProviders>>

\* for name := range r.providers
maprange(g) ==
    /\ ~fatal
    /\ pgo[g].pc = "maprange"
    /\ \/ \E m \in MapViews(g) :
             /\ pgo' = [pgo EXCEPT ![g] =
                           [pc |-> "returned", op |-> "List", names |-> DOMAIN m]]
             /\ fatal' = FALSE
       \/ /\ MapWriters \ {g} /= {}
          /\ fatal' = TRUE
          /\ pgo' = pgo
    /\ UNCHANGED <<providers, notProviders>>

\* the caller has the result
ProvReturn(g) ==
    /\ ~fatal
    /\ pgo[g].pc = "returned"
    /\ pgo' = [pgo EXCEPT ![g] = ProvIdle]
    /\ UNCHANGED <<providers, fatal, notProviders>>

\* the configurations Initialize is given
MaxConfigured == 2
Configurations ==
    UNION {[1..n -> ConfigProviders] : n \in 0..MaxConfigured}

NextProviders ==
    \/ \E g \in ProvGoroutines, c \in ConfigProviders : Register(g, NewProvider(c))
    \/ \E g \in ProvGoroutines, cfg \in Configurations : Initialize(g, cfg)
    \/ \E g \in ProvGoroutines : InitializeSwitch(g)
    \/ \E g \in ProvGoroutines : mapassignBegin(g)
    \/ \E g \in ProvGoroutines : mapassignEnd(g)
    \/ \E g \in ProvGoroutines, n \in ProviderNames : Get(g, n)
    \/ \E g \in ProvGoroutines, u \in Endpoints : GetByDomain(g, u)
    \/ \E g \in ProvGoroutines : List(g)
    \/ \E g \in ProvGoroutines : mapaccess(g)
    \/ \E g \in ProvGoroutines : maprange(g)
    \/ \E g \in ProvGoroutines : ProvReturn(g)

InitProviderSpec ==
    /\ NewRegistry
    /\ last = NoCall
    /\ InitLock
    /\ IdleMore
    /\ InitProviders
    /\ IdleAdapter
    /\ IdleBuiltin

SpecProviders == InitProviderSpec /\ [][NextProviders]_vars

\* a goroutine is inside Register or Initialize / inside any method
InProviderWrite(g) == pgo[g].op \in {"Register", "Initialize"}
InProviderCall(g) == pgo[g].pc \notin {"idle", "returned"}

\* C7 (as claimed): a Register or Initialize call on the provider registry
\* never runs at the same time as a Get, GetByDomain, List or another
\* Register on it, and the runtime never finds the map read and written at
\* once.
C7_ProviderRegistryExclusive ==
    /\ \A g, h \in ProvGoroutines :
           (g /= h /\ InProviderCall(g) /\ InProviderWrite(g)) => ~InProviderCall(h)
    /\ ~fatal

(***************************************************************************)
(* The Anthropic-native adapter (AnthropicProvider).  Each hook returns a  *)
(* body and an error; TransformStream is also handed the connection's      *)
(* *StreamState, which it may write through.                               *)
(***************************************************************************)
\* a TransformStream that marks the message as started, as a translating adapter does
AnthropicTransformStreamStarts(chunk, state) ==
    [body |-> chunk, err |-> Nil,
     state |-> IF state = NilState THEN NilState ELSE [state EXCEPT !.MessageStartSent = TRUE]]

AnthropicTransformRequest(request) == [body |-> request, err |-> Nil]

AnthropicTransformResponse(response) == [body |-> response, err |-> Nil]

AnthropicTransformStream(chunk, state) == [body |-> chunk, err |-> Nil, state |-> state]

\* a connection: the caller's StreamState (or the nil pointer), before any hook
InitAdapter ==
    /\ streamState \in StreamStates \cup {NilState}
    /\ hook = NoHook

TransformRequest(request) ==
    /\ hook' = [name |-> "TransformRequest", in |-> request, state |-> streamState,
                out |-> AnthropicTransformRequest(request)]
    /\ UNCHANGED <<streamState, notAdapter>>

TransformResponse(response) ==
    /\ hook' = [name |-> "TransformResponse", in |-> response, state |-> streamState,
                out |-> AnthropicTransformResponse(response)]
    /\ UNCHANGED <<streamState, notAdapter>>

TransformStream(chunk) ==
    LET r == AnthropicTransformStream(chunk, streamState)
    IN  /\ hook' = [name |-> "TransformStream", in |-> chunk, state |-> streamState,
                    out |-> [body |-> r.body, err |-> r.err]]
        /\ streamState' = r.state
        /\ UNCHANGED notAdapter

NextAdapter ==
    \/ \E request \in ByteStrings : TransformRequest(request)
    \/ \E response \in ByteStrings : TransformResponse(response)
    \/ \E chunk \in ByteStrings : TransformStream(chunk)

InitAdapterSpec ==
    /\ NewRegistry
    /\ last = NoCall
    /\ InitLock
    /\ IdleMore
    /\ InitProviders
    /\ InitAdapter
    /\ IdleBuiltin

SpecAdapter == InitAdapterSpec /\ [][NextAdapter]_vars

\* C8: the Anthropic-native adapter is a pass-through: TransformRequest,
\* TransformResponse and TransformStream return exactly the bytes they were
\* given with a nil error, and the StreamState is after the call what it was
\* before it.
C8_AnthropicPassThrough ==
    hook.name /= "none"
    => /\ hook.out.body = hook.in
       /\ hook.out.err = Nil
       /\ streamState = hook.state

C8_Witness ==
    /\ hook.name = "TransformStream"
    /\ hook.in = <<"a", "b">>
    /\ hook.out.body = <<"a", "b">>
    /\ streamState /= NilState
    /\ streamState.MessageStartSent = FALSE

(***************************************************************************)
(* JSON bodies as the built-in plugins see them.  A body is bytes that do  *)
(* not unmarshal into a map (not JSON, or JSON that is no object), the     *)
(* JSON null, or an object.  A value is tagged: a string (a sequence of    *)
(* characters), a list, a number (its digits), null, or absent.  Two       *)
(* bodies are equal here when they are the same JSON document: the order   *)
(* of keys and the spacing, which json.Marshal sets anew, are left out.    *)
(***************************************************************************)
Str(chars) == [t |-> "str", v |-> chars]
Array(items) == [t |-> "list", v |-> items]
Num(digits) == [t |-> "num", v |-> <<digits>>]
Null == [t |-> "null", v |-> <<>>]
Absent == [t |-> "absent", v |-> <<>>]

\* a number through json.Unmarshal into interface{} (a float64) and back
\* through json.Marshal: 2^53 + 1 is not a float64 and comes back as 2^53
Float64(value) ==
    IF value = Num("9007199254740993") THEN Num("9007199254740992") ELSE value

\* the other fields of a body (max_tokens, say)
Rests == {Absent, Num("1024"), Num("9007199254740993")}

\* content blocks: {"type":"text","text":...}
TextBlock(chars) == [type |-> "text", text |-> Str(chars)]
\* {"type":"tool_use","id":"tc_1","name":"get_time","input":{}}: no "text" key
ToolUseBlock == [type |-> "tool_use", text |-> Absent]

NotAMap == [kind |-> "notamap", system |-> Absent, content |-> Absent, rest |-> Absent]
JsonNull == [kind |-> "null", system |-> Absent, content |-> Absent, rest |-> Absent]
Object(system, content, rest) ==
    [kind |-> "object", system |-> system, content |-> content, rest |-> rest]

\* the system field of a request: absent, null, a string (empty or not), a
\* list of structured blocks (empty or not)
SystemValues ==
    {Absent, Null, Str(<<>>), Str(<<"A">>), Array(<<>>),
     Array(<<TextBlock(<<"A">>)>>), Array(<<TextBlock(<<"A">>), TextBlock(<<"B">>)>>)}

Requests ==
    {NotAMap, JsonNull} \cup {Object(sys, Absent, rest) : sys \in SystemValues, rest \in Rests}

\* the length of the text of a block, and the number of blocks of a response
MaxText == 2
MaxBlocks == 2
Texts == UNION {[1..n -> {"a", "b"}] : n \in 0..MaxText}
Blocks == {TextBlock(txt) : txt \in Texts} \cup {ToolUseBlock}
Contents == {Absent} \cup {Array(c) : c \in UNION {[1..n -> Blocks] : n \in 0..MaxBlocks}}

Responses ==
    {NotAMap, JsonNull} \cup {Object(Absent, c, rest) : c \in Contents, rest \in {Absent, Num("1024")}}

(***************************************************************************)
(* SystemPromptInjectorPlugin                                              *)
(***************************************************************************)
InjectorConfigs == [systemPrompt : {<<>>, <<"P">>}, enabled : BOOLEAN]

\* the "\n\n" between the prompt and the existing system prompt
Separator == <<"\n\n">>

InjectorEnabled(p) == p.enabled /\ p.systemPrompt /= <<>>

\* the answer of a plugin's Transform*: a body, an error, or a panic
Answer(body, err) == [body |-> body, err |-> err, panic |-> FALSE]
Panic == [body |-> NotAMap, err |-> Nil, panic |-> TRUE]

\* json.Unmarshal(request, &req) fails on bytes that are no JSON object; on
\* the JSON null it leaves req a nil map, and req["system"] = ... panics
InjectorTransformRequest(p, request) ==
    IF request.kind = "notamap" THEN Answer(request, "json")
    ELSE IF request.kind = "null" THEN Panic
    ELSE Answer(
           Object(IF request.system.t = "str" /\ request.system.v /= <<>>
                  THEN Str(p.systemPrompt \o Separator \o request.system.v)
                  ELSE Str(p.systemPrompt),
                  request.content,
                  Float64(request.rest)),
           Nil)

(***************************************************************************)
(* ResponseFilterPlugin                                                    *)
(***************************************************************************)
FilterWords == {<<"a">>, <<"a", "b">>}
FilterConfigs ==
    [filterWords : {<<>>} \cup {<<w>> : w \in FilterWords}
                      \cup {<<"a">>, <<"b">>} \X {<<"a", "b">>},
     replacement : {<<>>, <<"*">>, <<"a">>},
     enabled : BOOLEAN]

FilterEnabled(p) == p.enabled /\ Len(p.filterWords) > 0

\* replaceAll(s, old, new): result := s; return result
replaceAll(str, old, new) == str

\* for _, word := range p.filterWords { filtered = replaceAll(filtered, word, ...) }
RECURSIVE FilterText(_, _, _, _)
FilterText(p, filtered, i, n) ==
    IF i > n THEN filtered
    ELSE FilterText(p, replaceAll(filtered, p.filterWords[i], p.replacement), i + 1, n)

\* one item of content: a block whose "text" is a string gets the filtered text
FilterBlock(p, block) ==
    IF block.text.t = "str"
    THEN [block EXCEPT !.text = Str(FilterText(p, block.text.v, 1, Len(p.filterWords)))]
    ELSE block

FilterTransformResponse(p, response) ==
    IF response.kind = "notamap" THEN Answer(response, "json")
    ELSE IF response.kind = "null" THEN Answer(JsonNull, Nil)
    ELSE Answer(
           Object(response.system,
                  IF response.content.t = "list"
                  THEN Array([i \in 1..Len(response.content.v) |->
                                FilterBlock(p, response.content.v[i])])
                  ELSE response.content,
                  Float64(response.rest)),
           Nil)

(***************************************************************************)
(* The built-in plugins are constructed once; the registry then calls      *)
(* them, when Enabled, with the bodies that pass.                          *)
(***************************************************************************)
\* NewSystemPromptInjectorPlugin, NewResponseFilterPlugin
InitBuiltin ==
    /\ injector \in InjectorConfigs
    /\ filter \in FilterConfigs
    /\ built = NoBuilt

SystemPromptInjectorTransformRequest(request) ==
    /\ InjectorEnabled(injector)
    /\ built' = [name |-> "TransformRequest", in |-> request,
                 out |-> InjectorTransformRequest(injector, request)]
    /\ UNCHANGED <<injector, filter, notBuiltin>>

ResponseFilterTransformResponse(response) ==
    /\ FilterEnabled(filter)
    /\ built' = [name |-> "TransformResponse", in |-> response,
                 out |-> FilterTransformResponse(filter, response)]
    /\ UNCHANGED <<injector, filter, notBuiltin>>

NextBuiltin ==
    \/ \E request \in Requests : SystemPromptInjectorTransformRequest(request)
    \/ \E response \in Responses : ResponseFilterTransformResponse(response)

InitBuiltinSpec ==
    /\ NewRegistry
    /\ last = NoCall
    /\ InitLock
    /\ IdleMore
    /\ InitProviders
    /\ IdleAdapter
    /\ InitBuiltin

SpecBuiltin == InitBuiltinSpec /\ [][NextBuiltin]_vars

\* the characters of a system value, in order: of a string, the string; of a
\* list of blocks, the texts of its blocks
RECURSIVE BlockTexts(_)
BlockTexts(blocks) ==
    IF blocks = <<>> THEN <<>> ELSE Head(blocks).text.v \o BlockTexts(Tail(blocks))

Content(value) ==
    IF value.t = "str" THEN value.v
    ELSE IF value.t = "list" THEN BlockTexts(value.v)
    ELSE <<>>

IsSuffix(s, t) == Len(s) <= Len(t) /\ SubSeq(t, Len(t) - Len(s) + 1, Len(t)) = s

\* C9 (as claimed): the injector preserves existing system content in every
\* form: a request with no system field gets system = the configured prompt;
\* a request with a non-empty system, a string or a list of structured
\* blocks, gets a system that starts with the configured prompt and still
\* holds all of the existing content after it.
C9_InjectorPreservesSystem ==
    (built.name = "TransformRequest" /\ built.in.kind = "object")
    => /\ ~built.out.panic
       /\ built.out.err = Nil
       /\ built.in.system = Absent => built.out.body.system = Str(injector.systemPrompt)
       /\ (built.in.system.t \in {"str", "list"} /\ built.in.system.v /= <<>>)
          => /\ IsPrefix(injector.systemPrompt, Content(built.out.body.system))
             /\ IsSuffix(Content(built.in.system), Content(built.out.body.system))
             /\ Len(Content(built.out.body.system))
                   >= Len(injector.systemPrompt) + Len(Content(built.in.system))

\* s holds w as a substring
Contains(str, w) ==
    \E i \in 0..(Len(str) - Len(w)) : SubSeq(str, i + 1, i + Len(w)) = w

\* C10 (as claimed): after TransformResponse of the response filter, no text
\* block holds a configured filter word (when the replacement holds none),
\* and the blocks that are not text blocks are as they were.
C10_FilterReplacesWords ==
    (built.name = "TransformResponse" /\ built.in.kind = "object"
        /\ built.in.content.t = "list")
    => /\ built.out.err = Nil
       /\ built.out.body.content.t = "list"
       /\ Len(built.out.body.content.v) = Len(built.in.content.v)
       /\ \A i \in 1..Len(built.in.content.v) :
              LET before == built.in.content.v[i]
                  after == built.out.body.content.v[i]
              IN  IF before.type = "text"
                  THEN /\ after.type = "text"
                       /\ after.text.t = "str"
                       /\ (\A w \in Elems(filter.filterWords) :
                               ~Contains(filter.replacement, w))
                          => \A w \in Elems(filter.filterWords) :
                                 ~Contains(after.text.v, w)
                  ELSE after = before

(***************************************************************************)
(* TokenCounterPlugin.  The plugin registry calls OnRequest and OnResponse *)
(* from NotifyRequest and NotifyResponse, which hold r.mu for reading      *)
(* only: the tasks of two requests may be inside them at the same time.    *)
(* p.startTimes is a plain map.  A write of it (an assignment, a delete)   *)
(* is a step that begins and a step that ends; a write or read that falls  *)
(* inside another task's write is a data race, whose outcome is the        *)
(* runtime's fatal error ("concurrent map writes", "concurrent map read    *)
(* and map write"), an entry that is lost, or no harm.                     *)
(***************************************************************************)
\* plugins.GetRequestID(ctx): "" when the context carries no request id
RequestIDs == {"", "r1", "r2"}

\* time.Now()
Now == "now"

\* the tasks that are between the two steps of a write of p.startTimes
TimesWriters == {t \in Tasks : tasks[t].pc \in {"assigning", "deleting"}}

\* p.startTimes with the entry of requestID set / deleted
Stored(requestID) ==
    [n \in DOMAIN startTimes \cup {requestID} |-> IF n = requestID THEN Now ELSE startTimes[n]]
Deleted(requestID) ==
    [n \in DOMAIN startTimes \ {requestID} |-> startTimes[n]]

\* OnRequest(ctx, metadata) is called: requestID := plugins.GetRequestID(ctx);
\* if requestID != "" the assignment is next, else the log line.  A request
\* id is the id of one request: no two requests in flight share one.
OnRequest(t, requestID) ==
    /\ ~down
    /\ tasks[t].pc = "idle"
    /\ requestID /= "" => \A u \in Tasks \ {t} : tasks[u].id /= requestID
    /\ tasks' = [tasks EXCEPT ![t] = [pc |-> IF requestID /= "" THEN "mapassign" ELSE "InfoRequest",
                                      id |-> requestID]]
    /\ UNCHANGED <<startTimes, pending, down, notCounter>>

\* p.startTimes[requestID] = time.Now() begins
startTimesAssignBegin(t) ==
    /\ ~down
    /\ tasks[t].pc = "mapassign"
    /\ tasks' = [tasks EXCEPT ![t].pc = "assigning"]
    /\ down' \in IF TimesWriters /= {} THEN {FALSE, TRUE} ELSE {FALSE}
    /\ UNCHANGED <<startTimes, pending, notCounter>>

\* the assignment ends: the entry is in the map, unless another write was
\* going on and this one is lost
startTimesAssignEnd(t) ==
    /\ ~down
    /\ tasks[t].pc = "assigning"
    /\ startTimes' \in {Stored(tasks[t].id)}
                         \cup IF TimesWriters \ {t} /= {} THEN {startTimes} ELSE {}
    /\ tasks' = [tasks EXCEPT ![t].pc = "InfoRequest"]
    /\ UNCHANGED <<pending, down, notCounter>>

\* p.logger.Info("Request received", ...); OnRequest returns
OnRequestReturn(t) ==
    /\ ~down
    /\ tasks[t].pc = "InfoRequest"
    /\ tasks' = [tasks EXCEPT ![t].pc = "upstream"]
    /\ pending' = IF tasks[t].id /= "" THEN pending \cup {tasks[t].id} ELSE pending
    /\ UNCHANGED <<startTimes, down, notCounter>>

\* OnResponse(ctx, metadata) is called with the context of the same request
OnResponse(t) ==
    /\ ~down
    /\ tasks[t].pc = "upstream"
    /\ tasks' = [tasks EXCEPT ![t].pc = "mapaccess"]
    /\ UNCHANGED <<startTimes, pending, down, notCounter>>

\* if startTime, ok := p.startTimes[requestID]; ok { ... delete ... }
startTimesAccess(t) ==
    /\ ~down
    /\ tasks[t].pc = "mapaccess"
    /\ \/ /\ tasks' = [tasks EXCEPT ![t].pc = IF tasks[t].id \in DOMAIN startTimes
                                              THEN "mapdelete" ELSE "InfoResponse"]
          /\ down' = FALSE
       \/ /\ TimesWriters /= {}
          /\ down' = TRUE
          /\ tasks' = tasks
    /\ UNCHANGED <<startTimes, pending, notCounter>>

\* delete(p.startTimes, requestID) begins
startTimesDeleteBegin(t) ==
    /\ ~down
    /\ tasks[t].pc = "mapdelete"
    /\ tasks' = [tasks EXCEPT ![t].pc = "deleting"]
    /\ down' \in IF TimesWriters /= {} THEN {FALSE, TRUE} ELSE {FALSE}
    /\ UNCHANGED <<startTimes, pending, notCounter>>

\* the delete ends: the entry is gone, unless another write was going on and
\* this one is lost
startTimesDeleteEnd(t) ==
    /\ ~down
    /\ tasks[t].pc = "deleting"
    /\ startTimes' \in {Deleted(tasks[t].id)}
                         \cup IF TimesWriters \ {t} /= {} THEN {startTimes} ELSE {}
    /\ tasks' = [tasks EXCEPT ![t].pc = "InfoResponse"]
    /\ UNCHANGED <<pending, down, notCounter>>

\* p.logger.Info("Response completed", ...); OnResponse returns
OnResponseReturn(t) ==
    /\ ~down
    /\ tasks[t].pc = "InfoResponse"
    /\ tasks' = [tasks EXCEPT ![t] = TaskIdle]
    /\ pending' = pending \ {tasks[t].id}
    /\ UNCHANGED <<startTimes, down, notCounter>>

NextCounter ==
    \/ \E t \in Tasks, id \in RequestIDs : OnRequest(t, id)
    \/ \E t \in Tasks : startTimesAssignBegin(t)
    \/ \E t \in Tasks : startTimesAssignEnd(t)
    \/ \E t \in Tasks : OnRequestReturn(t)
    \/ \E t \in Tasks : OnResponse(t)
    \/ \E t \in Tasks : startTimesAccess(t)
    \/ \E t \in Tasks : startTimesDeleteBegin(t)
    \/ \E t \in Tasks : startTimesDeleteEnd(t)
    \/ \E t \in Tasks : OnResponseReturn(t)

InitCounterSpec ==
    /\ NewRegistry
    /\ last = NoCall
    /\ InitLock
    /\ InitProviders
    /\ IdleAdapter
    /\ IdleBuiltin
    /\ IdleMore

SpecCounter == InitCounterSpec /\ [][NextCounter]_vars

\* no task is inside OnRequest or OnResponse
CounterAtRest == \A t \in Tasks : tasks[t].pc \in {"idle", "upstream"}

\* C11 (as claimed): the process is never ended by the token counter, and
\* whenever no OnRequest or OnResponse call is in progress, the keys of
\* p.startTimes are exactly the non-empty ids of the requests whose OnRequest
\* has returned and whose OnResponse has not.
C11_StartTimesTrackPending ==
    /\ ~down
    /\ CounterAtRest => DOMAIN startTimes = pending

(***************************************************************************)
(* The provider registry, one call at a time: what Register, Initialize,   *)
(* Get, GetByDomain and List do to the map and answer, when no two calls   *)
(* overlap (startup, and lookups after it).                                *)
(***************************************************************************)
\* the number of Register calls made on one provider registry
MaxRegisterCalls == 3

\* the upstream families an adapter is to exist for
Families == {"anthropic", "openai", "openrouter", "gemini", "ollama",
             "deepseek", "groq", "nvidia"}

\* the configuration entries of a deployment: those above, and two more
FamilyConfigs ==
    ConfigProviders
        \cup {[Name |-> "groq", APIBase |-> "https://api.groq.com/openai/v1"],
              [Name |-> "ollama", APIBase |-> "http://LOCALHOST:11434"]}
FamilyConfigurations ==
    UNION {[1..n -> FamilyConfigs] : n \in 0..MaxConfigured}

\* the URLs GetByDomain is asked about: the configured endpoints, and a
\* string url.Parse rejects (missing protocol scheme)
BadURL == "://"
LookupURLs == {c.APIBase : c \in FamilyConfigs} \cup {BadURL}

\* url.Parse(apiBase) returns an error
ParseFails(apiBase) == apiBase = BadURL

\* the nil Provider
NilProvider == [nil |-> TRUE]

\* a Register that leaves an entry already in the map as it is
registerKeepFirst(m, provider) ==
    [n \in DOMAIN m \cup {Name(provider)} |-> IF n \in DOMAIN m THEN m[n] ELSE provider]

\* r.providers[provider.Name()] = provider
register(m, provider) ==
    [n \in DOMAIN m \cup {Name(provider)} |-> IF n = Name(provider) THEN provider ELSE m[n]]

\* the loop of Initialize from entry i on: the map it leaves, and the
\* providers it called Register with
RECURSIVE initialize(_, _, _, _)
initialize(m, cfgProviders, i, log) ==
    IF i > Len(cfgProviders) THEN [providers |-> m, log |-> log]
    ELSE IF cfgProviders[i].Name \in InitializeCases
    THEN initialize(register(m, NewProvider(cfgProviders[i])), cfgProviders, i + 1,
                    Append(log, NewProvider(cfgProviders[i])))
    ELSE initialize(m, cfgProviders, i + 1, log)

\* provider, exists := r.providers[name]; return provider, exists
get(m, name) ==
    [provider |-> IF name \in DOMAIN m THEN m[name] ELSE NilProvider,
     found |-> name \in DOMAIN m]

\* GetByDomain: url.Parse, the domain's provider name, r.Get
getByDomain(m, apiBase) ==
    IF ParseFails(apiBase) THEN [provider |-> NilProvider, err |-> "invalid API base URL"]
    ELSE IF DomainProviderMap(Hostname(apiBase)) /= Nil
            /\ get(m, DomainProviderMap(Hostname(apiBase))).found
    THEN [provider |-> get(m, DomainProviderMap(Hostname(apiBase))).provider, err |-> Nil]
    ELSE [provider |-> NilProvider, err |-> "no provider found for domain"]

\* List: the keys of the map, in the order the range over the map yields
\* them, which Go leaves open
list(m) ==
    {names \in [1..Cardinality(DOMAIN m) -> DOMAIN m] :
        \A i, j \in 1..Cardinality(DOMAIN m) : i /= j => names[i] /= names[j]}

RegistryRegister(provider) ==
    /\ plast = NoProviderCall
    /\ Len(regLog) < MaxRegisterCalls
    /\ providers' = register(providers, provider)
    /\ regLog' = Append(regLog, provider)
    /\ plast' = [op |-> "Register", provider |-> provider]
    /\ UNCHANGED notRegistry

RegistryInitialize(cfgProviders) ==
    LET r == initialize(providers, cfgProviders, 1, <<>>)
    IN  /\ plast = NoProviderCall
        /\ Len(regLog) + Len(r.log) <= MaxRegisterCalls
        /\ providers' = r.providers
        /\ regLog' = regLog \o r.log
        /\ plast' = [op |-> "Initialize", cfgProviders |-> cfgProviders]
        /\ UNCHANGED notRegistry

RegistryGet(name) ==
    /\ plast = NoProviderCall
    /\ plast' = [op |-> "Get", name |-> name, out |-> get(providers, name)]
    /\ UNCHANGED <<providers, regLog, notRegistry>>

RegistryGetByDomain(apiBase) ==
    /\ plast = NoProviderCall
    /\ plast' = [op |-> "GetByDomain", apiBase |-> apiBase,
                 out |-> getByDomain(providers, apiBase)]
    /\ UNCHANGED <<providers, regLog, notRegistry>>

RegistryList ==
    /\ plast = NoProviderCall
    /\ \E names \in list(providers) : plast' = [op |-> "List", names |-> names]
    /\ UNCHANGED <<providers, regLog, notRegistry>>

\* the caller takes what the call returned
RegistryReturn ==
    /\ plast /= NoProviderCall
    /\ plast' = NoProviderCall
    /\ UNCHANGED <<providers, regLog, notRegistry>>

NextRegistry ==
    \/ \E c \in FamilyConfigs : RegistryRegister(NewProvider(c))
    \/ \E cfg \in FamilyConfigurations : RegistryInitialize(cfg)
    \/ \E n \in Families : RegistryGet(n)
    \/ \E u \in LookupURLs : RegistryGetByDomain(u)
    \/ RegistryList
    \/ RegistryReturn

InitRegistrySpec ==
    /\ NewRegistry
    /\ last = NoCall
    /\ InitLock
    /\ InitProviders
    /\ IdleAdapter
    /\ IdleBuiltin
    /\ IdleMore

SpecRegistry == InitRegistrySpec /\ [][NextRegistry]_vars

\* C12 (as claimed): after Initialize(cfgProviders), Get(name) finds an
\* adapter for every entry of cfgProviders whose name is one of the eight
\* upstream families, and that adapter answers to that name.
C12_InitializeCoversFamilies ==
    plast.op = "Initialize"
    => \A i \in 1..Len(plast.cfgProviders) :
          plast.cfgProviders[i].Name \in Families
          => /\ get(providers, plast.cfgProviders[i].Name).found
             /\ Name(get(providers, plast.cfgProviders[i].Name).provider)
                    = plast.cfgProviders[i].Name

\* the names Register was called with, and the provider it was called with
\* last under a name
RegisteredNames == {Name(regLog[i]) : i \in 1..Len(regLog)}
LastRegistered(name) ==
    LET calls == {i \in 1..Len(regLog) : Name(regLog[i]) = name}
    IN  regLog[CHOOSE i \in calls : \A j \in calls : j <= i]

\* names holds each registered name exactly once and nothing else
ListsEachOnce(names) ==
    /\ Len(names) = Cardinality(RegisteredNames)
    /\ \A name \in RegisteredNames :
           Cardinality({i \in 1..Len(names) : names[i] = name}) = 1

\* what Get is to answer for a name
GetExpected(name) ==
    IF name \in RegisteredNames
    THEN [provider |-> LastRegistered(name), found |-> TRUE]
    ELSE [provider |-> NilProvider, found |-> FALSE]

\* C13: after any sequence of Register calls (those of Initialize included),
\* List holds each registered name exactly once, Get(name) returns the
\* provider registered most recently under that name, and Get of a name
\* never registered returns (nil, false).
C13_ProviderNamesUnique ==
    /\ \A name \in Families : get(providers, name) = GetExpected(name)
    /\ \A names \in list(providers) : ListsEachOnce(names)
    /\ plast.op = "Get" => plast.out = GetExpected(plast.name)
    /\ plast.op = "List" => ListsEachOnce(plast.names)

\* openai was registered twice with different endpoints, and Get("openai")
\* returned the second
C13_Witness ==
    /\ plast.op = "Get"
    /\ plast.name = "openai"
    /\ Len(regLog) = 3
    /\ Name(regLog[1]) = "openai"
    /\ Name(regLog[2]) = "anthropic"
    /\ Name(regLog[3]) = "openai"
    /\ regLog[1] /= regLog[3]
    /\ plast.out = [provider |-> regLog[3], found |-> TRUE]

\* C14 (as claimed): GetByDomain called with the configured endpoint of a
\* registered provider returns that provider and no error; called with a URL
\* that does not parse or whose hostname is the hostname of no registered
\* provider's endpoint, it returns an error and no provider.
C14_GetByDomainFollowsConfiguration ==
    plast.op = "GetByDomain"
    => /\ \A n \in DOMAIN providers :
              providers[n].APIBase = plast.apiBase
              => plast.out = [provider |-> providers[n], err |-> Nil]
       /\ (ParseFails(plast.apiBase)
              \/ \A n \in DOMAIN providers :
                     Hostname(providers[n].APIBase) /= Hostname(plast.apiBase))
          => /\ plast.out.err /= Nil
             /\ plast.out.provider = NilProvider

(***************************************************************************)
(* A streaming response through the Anthropic-native adapter.  The         *)
(* upstream speaks the Anthropic dialect: it sends message_start, then     *)
(* block after block (content_block_start, deltas, content_block_stop),    *)
(* then message_delta and message_stop; the connection may close after     *)
(* any of them.  Each chunk (one event here) is handed to TransformStream  *)
(* with the connection's StreamState, and what it returns is written to    *)
(* the client.                                                             *)
(***************************************************************************)
\* the blocks of one response, and the deltas of one block
MaxStreamBlocks == 2
MaxDeltas == 2

BlockTypes == {"text", "tool_use"}

\* an SSE event: its name, and for a block event the block's index and type
Event(type, index, block) == [type |-> type, index |-> index, block |-> block]
MessageStart == Event("message_start", 0, "")
MessageDelta == Event("message_delta", 0, "")
MessageStop == Event("message_stop", 0, "")

BlockEvents == {"content_block_start", "content_block_delta", "content_block_stop"}

Events ==
    {MessageStart, MessageDelta, MessageStop}
        \cup {Event(t, i, b) : t \in BlockEvents, i \in 0..(MaxStreamBlocks - 1), b \in BlockTypes}

\* the places of the events of a type (and of an index) in a stream
Places(stream, type) == {i \in 1..Len(stream) : stream[i].type = type}
BlockPlaces(stream, type, index) ==
    {i \in Places(stream, type) : stream[i].index = index}

\* the events an Anthropic upstream may send next, after those of `stream`
Following(stream) ==
    IF stream = <<>> THEN {MessageStart}
    ELSE LET e == stream[Len(stream)]
             opened == Cardinality(Places(stream, "content_block_start"))
         IN  IF e.type \in {"message_start", "content_block_stop"}
             THEN {MessageDelta}
                    \cup {Event("content_block_start", opened, b) :
                            b \in IF opened < MaxStreamBlocks THEN BlockTypes ELSE {}}
             ELSE IF e.type \in {"content_block_start", "content_block_delta"}
             THEN {Event("content_block_stop", e.index, e.block)}
                    \cup IF Cardinality(BlockPlaces(stream, "content_block_delta", e.index))
                              < MaxDeltas
                         THEN {Event("content_block_delta", e.index, e.block)}
                         ELSE {}
             ELSE IF e.type = "message_delta" THEN {MessageStop}
             ELSE {}

\* the connection's StreamState as the handler creates it
NewStreamState ==
    [MessageStartSent |-> FALSE, MessageID |-> "", Model |-> "", InitialUsage |-> Nil,
     ContentBlocks |-> <<>>, CurrentIndex |-> 0]

InitStream ==
    /\ streamState = NewStreamState
    /\ hook = NoHook
    /\ IdleStream

\* the upstream sends a chunk; TransformStream(chunk, state) is called and its
\* result is written to the client
StreamChunk(chunk) ==
    LET r == AnthropicTransformStream(chunk, streamState)
    IN  /\ conn = "open"
        /\ chunk \in Following(sent)
        /\ sent' = Append(sent, chunk)
        /\ emitted' = IF r.err = Nil THEN Append(emitted, r.body) ELSE emitted
        /\ streamState' = r.state
        /\ conn' = conn
        /\ UNCHANGED notStream

\* the upstream connection closes: there is no chunk, and no hook is called
StreamClose ==
    /\ conn = "open"
    /\ conn' = "closed"
    /\ UNCHANGED <<sent, emitted, streamState, notStream>>

NextStream ==
    \/ \E chunk \in Events : StreamChunk(chunk)
    \/ StreamClose

InitStreamSpec ==
    /\ NewRegistry
    /\ last = NoCall
    /\ InitLock
    /\ InitProviders
    /\ InitStream
    /\ IdleBuiltin
    /\ IdleCounter
    /\ IdleRegistry
    /\ IdleWorkflow
    /\ IdleWeb
    /\ IdleLate

SpecStream == InitStreamSpec /\ [][NextStream]_vars

\* the indices of the blocks a stream opens
Opened(stream) == {stream[i].index : i \in Places(stream, "content_block_start")}

\* C15 (as claimed): once an upstream that has sent something has ended, the
\* stream written to the client has exactly one message_start, before any block event; for every
\* opened block exactly one content_block_start, before its deltas, and
\* exactly one content_block_stop, after them; exactly one message_delta and
\* then exactly one message_stop, after every block event; and the block
\* indices are 0, 1, 2, ... in the order the blocks were opened.
C15_StreamWellFormed ==
    (conn = "closed" /\ sent /= <<>>)
    => /\ Cardinality(Places(emitted, "message_start")) = 1
       /\ \A i \in 1..Len(emitted) :
              emitted[i].type \in BlockEvents
              => \E j \in 1..(i - 1) : emitted[j].type = "message_start"
       /\ \A i \in 1..Len(emitted) :
              emitted[i].type \in BlockEvents => emitted[i].index \in Opened(emitted)
       /\ \A x \in Opened(emitted) :
              /\ Cardinality(BlockPlaces(emitted, "content_block_start", x)) = 1
              /\ Cardinality(BlockPlaces(emitted, "content_block_stop", x)) = 1
              /\ \A d \in BlockPlaces(emitted, "content_block_delta", x) :
                     /\ \A b \in BlockPlaces(emitted, "content_block_start", x) : b < d
                     /\ \A e \in BlockPlaces(emitted, "content_block_stop", x) : d < e
       /\ Cardinality(Places(emitted, "message_delta")) = 1
       /\ Cardinality(Places(emitted, "message_stop")) = 1
       /\ Places(emitted, "message_stop") = {Len(emitted)}
       /\ Places(emitted, "message_delta") = {Len(emitted) - 1}
       /\ Opened(emitted) = 0..(Cardinality(Opened(emitted)) - 1)
       /\ \A i, j \in Places(emitted, "content_block_start") :
              i < j => emitted[i].index < emitted[j].index

(***************************************************************************)
(* The workflow executor (internal/workflow/executor.go).  A step is known *)
(* by its Type and its OnError.  Whether the body of a step fails is the   *)
(* environment's: a command exits with a status, a read of the terminal    *)
(* ends with a line or with an error.  outcomes[k] is what the environment *)
(* does to the k-th call of executeStep, and yes is what the user answers  *)
(* when asked whether to go on.                                            *)
(***************************************************************************)
\* the steps of one workflow
MaxSteps == 2

\* StepType: a command, a prompt, a wait, and a type executeStep has no case for
StepTypes == {"command", "prompt", "wait", "bogus"}
\* ErrorAction, unset included
ErrorActions == {"", "continue", "abort", "retry", "prompt"}

Steps == [Type : StepTypes, OnError : ErrorActions]

\* Workflow.Variables
WorkflowVariables == [region |-> "eu"]

Workflows ==
    [Steps : UNION {[1..n -> Steps] : n \in 0..MaxSteps}, Variables : {WorkflowVariables}]

Outcomes == [1..(MaxSteps + 1) -> BOOLEAN]

\* the nil error, the error of the i-th step's body, and
\* fmt.Errorf("workflow aborted: %w", err)
NoError == [nil |-> TRUE]
StepError(i) == [step |-> i]
Aborted(err) == [aborted |-> err]

\* ExecutionContext as Execute creates it, with what the run has done so far:
\* the steps whose header was shown, the steps executeStep was called for, the
\* steps whose body failed, whether the user was asked, and whether
\* "Workflow completed successfully" was logged
NewContext(workflow) ==
    [Variables |-> workflow.Variables, StepIndex |-> 0, shown |-> <<>>, calls |-> <<>>,
     failures |-> <<>>, asked |-> FALSE, completed |-> FALSE]

\* executeStep(ctx, step) for the i-th step: a command fails when the
\* environment says so; a prompt too, and else stores the line read in its
\* variable; a wait sleeps; an unknown type is an error
executeStep(ctx, i, step, ok) ==
    LET called == [ctx EXCEPT !.calls = Append(@, i)]
        failed == [ctx |-> [called EXCEPT !.failures = Append(@, i)], err |-> StepError(i)]
    IN  CASE step.Type = "command" ->
               IF ok THEN [ctx |-> called, err |-> NoError] ELSE failed
          [] step.Type = "prompt" ->
               IF ok THEN [ctx |-> [called EXCEPT !.Variables.region = "typed"], err |-> NoError]
               ELSE failed
          [] step.Type = "wait" -> [ctx |-> called, err |-> NoError]
          [] OTHER -> failed

\* a handleStepError whose default case lets the workflow go
handleStepErrorSwallows(ctx, i, step, err, retryOk, yes) ==
    CASE step.OnError = "continue" -> [ctx |-> ctx, err |-> NoError]
      [] step.OnError = "retry" -> executeStep(ctx, i, step, retryOk)
      [] step.OnError = "prompt" ->
           [ctx |-> [ctx EXCEPT !.asked = TRUE], err |-> IF yes THEN NoError ELSE err]
      [] OTHER -> [ctx |-> ctx, err |-> NoError]

\* handleStepError(ctx, step, err): what Execute returns for a failed step
handleStepError(ctx, i, step, err, retryOk, yes) ==
    CASE step.OnError = "continue" -> [ctx |-> ctx, err |-> NoError]
      [] step.OnError = "retry" -> executeStep(ctx, i, step, retryOk)
      [] step.OnError = "prompt" ->
           [ctx |-> [ctx EXCEPT !.asked = TRUE], err |-> IF yes THEN NoError ELSE err]
      [] OTHER -> [ctx |-> ctx, err |-> Aborted(err)]

\* a loop that does not look at e.dryRun
RECURSIVE executeStepsForReal(_, _, _, _, _, _)
executeStepsForReal(e, steps, i, ctx, outcomes, yes) ==
    IF i > Len(steps)
    THEN [ctx |-> [ctx EXCEPT !.completed = TRUE], err |-> NoError]
    ELSE LET shown == [ctx EXCEPT !.StepIndex = i, !.shown = Append(@, i)]
             k == Len(ctx.calls) + 1
             r == executeStep(shown, i, steps[i], outcomes[k])
         IN  IF r.err /= NoError
             THEN handleStepError(r.ctx, i, steps[i], r.err, outcomes[k + 1], yes)
             ELSE executeStepsForReal(e, steps, i + 1, r.ctx, outcomes, yes)

\* the loop of Execute from the i-th step on: the header of the step; with
\* dryRun the next step; else executeStep, and on an error the return of
\* what handleStepError returns; after the last step the success line
RECURSIVE executeSteps(_, _, _, _, _, _)
executeSteps(e, steps, i, ctx, outcomes, yes) ==
    IF i > Len(steps)
    THEN [ctx |-> [ctx EXCEPT !.completed = TRUE], err |-> NoError]
    ELSE LET shown == [ctx EXCEPT !.StepIndex = i, !.shown = Append(@, i)]
             k == Len(ctx.calls) + 1
             r == executeStep(shown, i, steps[i], outcomes[k])
         IN  IF e.dryRun
             THEN executeSteps(e, steps, i + 1, shown, outcomes, yes)
             ELSE IF r.err /= NoError
             THEN handleStepError(r.ctx, i, steps[i], r.err, outcomes[k + 1], yes)
             ELSE executeSteps(e, steps, i + 1, r.ctx, outcomes, yes)

\* the environment is told apart only by what the run asked of it
Asked(workflow, r, outcomes, yes) ==
    /\ \A k \in DOMAIN outcomes :
           (k > Len(r.ctx.calls)
               \/ workflow.Steps[r.ctx.calls[k]].Type \notin {"command", "prompt"})
           => outcomes[k]
    /\ yes => r.ctx.asked

\* NewExecutor(logger, dryRun).Execute(workflow)
Execute(workflow, dryRun, outcomes, yes) ==
    LET r == executeSteps([dryRun |-> dryRun], workflow.Steps, 1, NewContext(workflow),
                          outcomes, yes)
    IN  /\ execution = NoExecution
        /\ Asked(workflow, r, outcomes, yes)
        /\ execution' = [op |-> "Execute", workflow |-> workflow, dryRun |-> dryRun,
                         outcomes |-> outcomes, yes |-> yes, ctx |-> r.ctx, err |-> r.err]
        /\ UNCHANGED notWorkflow

\* the command that called Execute has its result
ExecuteReturn ==
    /\ execution /= NoExecution
    /\ execution' = NoExecution
    /\ UNCHANGED notWorkflow

\* one Execute at a time: the next is called when the last has returned
NextWorkflow ==
    \/ /\ execution = NoExecution
       /\ \E w \in Workflows, dryRun \in BOOLEAN, outcomes \in Outcomes, yes \in BOOLEAN :
              Execute(w, dryRun, outcomes, yes)
    \/ ExecuteReturn

InitWorkflowSpec ==
    /\ NewRegistry
    /\ last = NoCall
    /\ InitLock
    /\ InitProviders
    /\ IdleAdapter
    /\ IdleBuiltin
    /\ IdleMore

SpecWorkflow == InitWorkflowSpec /\ [][NextWorkflow]_vars

\* <<a, a + 1, ..., b>>
Upto(a, b) == [k \in 1..(b - a + 1) |-> a + k - 1]

\* the last Execute was no dry run and a step's body failed in it; the step
\* whose body failed first, and its OnError
StepFailed == execution.op = "Execute" /\ execution.ctx.failures /= <<>>
FirstFailed == execution.ctx.failures[1]
FirstOnError == execution.workflow.Steps[FirstFailed].OnError
NumSteps == Len(execution.workflow.Steps)

\* C16 (as claimed): when the body of a step whose OnError is "continue"
\* fails, Execute goes on with the next step, and when no other body fails
\* every step of the workflow has been executed once, in order, and Execute
\* returns nil.
C16_ContinueGoesOn ==
    (StepFailed /\ FirstOnError = "continue")
    => /\ FirstFailed < NumSteps
          => /\ Len(execution.ctx.calls) > FirstFailed
             /\ execution.ctx.calls[FirstFailed + 1] = FirstFailed + 1
       /\ Len(execution.ctx.failures) = 1
          => /\ execution.ctx.calls = Upto(1, NumSteps)
             /\ execution.err = NoError

\* C17: when the body of a step whose OnError is "abort" or unset fails,
\* Execute returns an error that wraps the error of the step, the failed step
\* is the last one shown and the last one executed, and the workflow is not
\* reported as completed.
C17_AbortStops ==
    (StepFailed /\ FirstOnError \in {"abort", ""})
    => /\ execution.err = Aborted(StepError(FirstFailed))
       /\ execution.err /= NoError
       /\ execution.ctx.calls = Upto(1, FirstFailed)
       /\ execution.ctx.shown = Upto(1, FirstFailed)
       /\ execution.ctx.failures = <<FirstFailed>>
       /\ ~execution.ctx.completed

\* the first of two steps, a command with OnError unset, fails
C17_Witness ==
    /\ StepFailed
    /\ NumSteps = 2
    /\ execution.workflow.Steps[1] = [Type |-> "command", OnError |-> ""]
    /\ FirstFailed = 1
    /\ execution.err = Aborted(StepError(1))
    /\ execution.ctx.calls = <<1>>

\* C18 (as claimed): when the body of a step whose OnError is "retry" fails,
\* the step is executed again; when that succeeds and no other body fails,
\* the following steps have been executed in order and Execute returns nil;
\* when it fails again, Execute returns an error.
C18_RetryGoesOn ==
    (StepFailed /\ FirstOnError = "retry")
    => /\ Len(execution.ctx.calls) > FirstFailed
       /\ execution.ctx.calls[FirstFailed] = FirstFailed
       /\ execution.ctx.calls[FirstFailed + 1] = FirstFailed
       /\ Len(execution.ctx.failures) = 1
          => /\ execution.ctx.calls
                   = Upto(1, FirstFailed) \o Upto(FirstFailed, NumSteps)
             /\ execution.err = NoError
       /\ (Len(execution.ctx.failures) > 1 /\ execution.ctx.failures[2] = FirstFailed)
          => execution.err /= NoError

\* C19: with dryRun, Execute calls executeStep for no step (no command is
\* run, no line is read, no sleep happens, no body fails, nobody is asked),
\* leaves the variables as the workflow has them, shows every step in order,
\* and returns nil.
C19_DryRunExecutesNothing ==
    (execution.op = "Execute" /\ execution.dryRun)
    => /\ execution.ctx.calls = <<>>
       /\ execution.ctx.failures = <<>>
       /\ ~execution.ctx.asked
       /\ execution.ctx.Variables = execution.workflow.Variables
       /\ execution.ctx.shown = Upto(1, NumSteps)
       /\ execution.err = NoError

\* a dry run of a step of unknown type and a prompt
C19_Witness ==
    /\ execution.op = "Execute"
    /\ execution.dryRun
    /\ NumSteps = 2
    /\ execution.workflow.Steps[1].Type = "bogus"
    /\ execution.workflow.Steps[2].Type = "prompt"
    /\ execution.ctx.shown = <<1, 2>>
    /\ execution.err = NoError

(***************************************************************************)
(* The web UI's /api/config (internal/webui).  A string is a sequence of   *)
(* characters.  A provider's APIKey is an interface{}: nil, a string, a    *)
(* list of keys (a key pool), or a value of another type.                  *)
(***************************************************************************)
\* the providers of one configuration
MaxConfigProviders == 2

Key3 == <<"k", "e", "y">>
Key8 == <<"s", "k", "-", "1", "2", "3", "4", "5">>
Key9 == <<"s", "k", "-", "1", "2", "3", "4", "5", "6">>

APIKeys ==
    {Null, Str(<<>>), Str(Key3), Str(Key8), Str(Key9), Array(<<Str(Key9), Str(Key8)>>),
     Num("1")}
RouterKeys == {<<>>, Key8, Key9}

Configs ==
    [Providers : UNION {[1..n -> [APIKey : APIKeys]] : n \in 0..MaxConfigProviders},
     APIKey : RouterKeys]

Stars == <<"*", "*", "*", "*">>

\* fmt.Sprintf("%d", n), for the lengths of the pools above
Digits(n) ==
    CASE n = 0 -> <<"0">> [] n = 1 -> <<"1">> [] n = 2 -> <<"2">> [] n = 3 -> <<"3">>

\* fmt.Sprintf("[%d keys configured]", n) and "[configured]"
KeysConfigured(n) ==
    <<"[">> \o Digits(n)
        \o <<" ", "k", "e", "y", "s", " ", "c", "o", "n", "f", "i", "g", "u", "r", "e", "d", "]">>
Configured == <<"[", "c", "o", "n", "f", "i", "g", "u", "r", "e", "d", "]">>

\* maskString(s)
maskString(str) ==
    IF str = <<>> THEN <<>>
    ELSE IF Len(str) <= 8 THEN Stars
    ELSE SubSeq(str, 1, 4) \o Stars \o SubSeq(str, Len(str) - 3, Len(str))

\* maskAPIKey(key)
maskAPIKey(key) ==
    IF key = Null THEN <<>>
    ELSE CASE key.t = "str" -> maskString(key.v)
           [] key.t = "list" -> KeysConfigured(Len(key.v))
           [] OTHER -> Configured

\* s.config.Get(): the configuration the manager holds, the same one at
\* every call
ConfigGet == config

\* the configuration is loaded at startup
InitWeb ==
    /\ config \in Configs
    /\ loaded = config
    /\ configResponse = NoResponse

\* handleConfig.  maskedCfg := *cfg copies the Config struct, not the array
\* of its Providers slice: maskedCfg.Providers[i] is cfg.Providers[i], and
\* the loop writes the masked keys into the configuration Get returned.
\* maskedCfg.APIKey is a string of the copy.
handleConfig ==
    LET cfg == ConfigGet
        Providers == [i \in 1..Len(cfg.Providers) |->
                        [cfg.Providers[i] EXCEPT !.APIKey = Str(maskAPIKey(@))]]
        maskedCfg == [Providers |-> Providers,
                      APIKey |-> IF cfg.APIKey /= <<>> THEN maskString(cfg.APIKey)
                                 ELSE cfg.APIKey]
    IN  /\ config' = [cfg EXCEPT !.Providers = Providers]
        /\ configResponse' = [op |-> "config", cfg |-> maskedCfg]
        /\ UNCHANGED <<loaded, notWeb>>

NextWeb == handleConfig

InitWebSpec ==
    /\ NewRegistry
    /\ last = NoCall
    /\ InitLock
    /\ InitProviders
    /\ IdleAdapter
    /\ IdleBuiltin
    /\ IdleCounter
    /\ IdleRegistry
    /\ IdleStream
    /\ IdleWorkflow
    /\ InitWeb
    /\ IdleLate

SpecWeb == InitWebSpec /\ [][NextWeb]_vars

\* what the claim says a key is shown as
Shown(key) ==
    IF key = Null THEN <<>>
    ELSE CASE key.t = "str" ->
                IF key.v = <<>> THEN <<>>
                ELSE IF Len(key.v) > 8
                THEN SubSeq(key.v, 1, 4) \o Stars \o SubSeq(key.v, Len(key.v) - 3, Len(key.v))
                ELSE Stars
           [] key.t = "list" -> KeysConfigured(Len(key.v))
           [] OTHER -> Configured

\* the keys a configured APIKey holds
Secrets(key) ==
    IF key = Null THEN {}
    ELSE CASE key.t = "str" -> {key.v} \ {<<>>}
           [] key.t = "list" -> {key.v[i].v : i \in 1..Len(key.v)}
           [] OTHER -> {}

\* C20 (as claimed): in every /api/config response each provider's key and
\* the router's key are shown masked: a string longer than 8 characters as
\* its first 4 characters, "****" and its last 4, a shorter non-empty string
\* as "****", a key pool as the count of its keys; and no configured key is
\* in the response in full.
C20_ConfigKeysMasked ==
    configResponse /= NoResponse
    => /\ Len(configResponse.cfg.Providers) = Len(loaded.Providers)
       /\ \A i \in 1..Len(loaded.Providers) :
              /\ configResponse.cfg.Providers[i].APIKey
                    = Str(Shown(loaded.Providers[i].APIKey))
              /\ \A k \in Secrets(loaded.Providers[i].APIKey) :
                     ~Contains(configResponse.cfg.Providers[i].APIKey.v, k)
       /\ configResponse.cfg.APIKey = Shown(Str(loaded.APIKey))
       /\ loaded.APIKey /= <<>> => ~Contains(configResponse.cfg.APIKey, loaded.APIKey)

(***************************************************************************)
(* The web UI's statistics (internal/webui): LogRequest and handleStats on *)
(* the Stats of one Server, called by tasks that run in parallel.          *)
(* LogRequest holds stats.mu from its first line to its return (Lock,      *)
(* deferred Unlock), handleStats holds it for reading (RLock, deferred     *)
(* RUnlock) while it builds and encodes its response.                      *)
(***************************************************************************)
\* the LogRequest calls made on one Server
MaxLogRequests == 102
\* the first calls log any of LogRequests; the calls after them log the
\* first of LogRequests again
MaxVariedRequests == 2

\* RecentRequests keeps the last 100
RecentLimit == 100

\* what LogRequest is called with
LogRequests ==
    <<[provider |-> "openai", model |-> "gpt", inputTokens |-> 1, outputTokens |-> 1,
       durationMs |-> 5, status |-> 200],
      [provider |-> "groq", model |-> "llama", inputTokens |-> 2, outputTokens |-> 0,
       durationMs |-> 7, status |-> 500]>>

\* fmt.Sprintf("%s/%s", provider, model)
ModelKey(provider, model) == provider \o "/" \o model

\* m[k] += d on a map[string]int64: a missing key counts as 0
MapAdd(m, k, d) ==
    [n \in DOMAIN m \cup {k} |->
        IF n = k THEN (IF k \in DOMAIN m THEN m[k] ELSE 0) + d ELSE m[n]]

\* the LogRequest calls made so far: those that returned and the one in progress
LogStarted == Len(logged) + (IF statsMu.writer = "none" THEN 0 ELSE 1)

\* LogRequest(provider, model, ...): s.stats.mu.Lock() returns when nobody
\* holds the lock
LogRequest(t, req) ==
    /\ stasks[t].pc = "idle"
    /\ LogStarted < MaxLogRequests
    /\ LogStarted >= MaxVariedRequests => req = LogRequests[1]
    /\ statsMu.writer = "none"
    /\ statsMu.readers = {}
    /\ statsMu' = [statsMu EXCEPT !.writer = t]
    /\ stasks' = [stasks EXCEPT ![t] = [pc |-> "totals", req |-> req]]
    /\ UNCHANGED <<stats, statsResponse, logged, notStats>>

\* s.stats.TotalRequests++; s.stats.TotalTokens += int64(inputTokens + outputTokens)
LogTotals(t) ==
    /\ stasks[t].pc = "totals"
    /\ stats' = [stats EXCEPT
                    !.TotalRequests = @ + 1,
                    !.TotalTokens = @ + stasks[t].req.inputTokens + stasks[t].req.outputTokens]
    /\ stasks' = [stasks EXCEPT ![t].pc = "byModel"]
    /\ UNCHANGED <<statsMu, statsResponse, logged, notStats>>

\* s.stats.RequestsByModel[modelKey]++; s.stats.TokensByModel[modelKey] += ...
LogByModel(t) ==
    LET req == stasks[t].req
        modelKey == ModelKey(req.provider, req.model)
    IN  /\ stasks[t].pc = "byModel"
        /\ stats' = [stats EXCEPT
                        !.RequestsByModel = MapAdd(@, modelKey, 1),
                        !.TokensByModel =
                            MapAdd(@, modelKey, req.inputTokens + req.outputTokens)]
        /\ stasks' = [stasks EXCEPT ![t].pc = "recent"]
        /\ UNCHANGED <<statsMu, statsResponse, logged, notStats>>

\* the RequestLog of a request; time.Now() under the lock is the place of the
\* call among the calls
RequestLog(req) ==
    [Timestamp |-> Len(logged) + 1, Provider |-> req.provider, Model |-> req.model,
     InputTokens |-> req.inputTokens, OutputTokens |-> req.outputTokens,
     DurationMs |-> req.durationMs, Status |-> req.status]

\* an append that drops the newest entry when the list is full
appendRecentDropNewest(recent, log) ==
    IF Len(recent) >= RecentLimit THEN recent ELSE Append(recent, log)

\* s.stats.RecentRequests = append(s.stats.RecentRequests, log), and
\* RecentRequests[1:] if that made more than 100
appendRecent(recent, log) ==
    LET appended == Append(recent, log)
    IN  IF Len(appended) > RecentLimit THEN Tail(appended) ELSE appended

LogRecent(t) ==
    /\ stasks[t].pc = "recent"
    /\ stats' = [stats EXCEPT !.RecentRequests = appendRecent(@, RequestLog(stasks[t].req))]
    /\ stasks' = [stasks EXCEPT ![t].pc = "Unlock"]
    /\ UNCHANGED <<statsMu, statsResponse, logged, notStats>>

\* the deferred s.stats.mu.Unlock(): LogRequest returns
LogRequestReturn(t) ==
    /\ stasks[t].pc = "Unlock"
    /\ statsMu' = [statsMu EXCEPT !.writer = "none"]
    /\ logged' = Append(logged, RequestLog(stasks[t].req))
    /\ stasks' = [stasks EXCEPT ![t] = StatsTaskIdle]
    /\ UNCHANGED <<stats, statsResponse, notStats>>

\* an RLock that does not wait for the writer
statsRLockNoWait(t) == TRUE

\* s.stats.mu.RLock() returns when no writer holds the lock
statsRLock(t) == statsMu.writer = "none"

\* handleStats: s.stats.mu.RLock()
handleStats(t) ==
    /\ stasks[t].pc = "idle"
    /\ statsRLock(t)
    /\ statsMu' = [statsMu EXCEPT !.readers = @ \cup {t}]
    /\ stasks' = [stasks EXCEPT ![t] = [pc |-> "encode"]]
    /\ UNCHANGED <<stats, statsResponse, logged, notStats>>

\* resp := StatsResponse{...}; s.jsonResponse(w, resp)
StatsEncode(t) ==
    /\ stasks[t].pc = "encode"
    /\ statsResponse' = [op |-> "stats", TotalRequests |-> stats.TotalRequests,
                         TotalTokens |-> stats.TotalTokens,
                         RequestsByModel |-> stats.RequestsByModel,
                         TokensByModel |-> stats.TokensByModel,
                         RecentRequests |-> stats.RecentRequests]
    /\ stasks' = [stasks EXCEPT ![t].pc = "RUnlock"]
    /\ UNCHANGED <<stats, statsMu, logged, notStats>>

\* the deferred s.stats.mu.RUnlock(): handleStats returns, the response is
\* with the client
handleStatsReturn(t) ==
    /\ stasks[t].pc = "RUnlock"
    /\ statsMu' = [statsMu EXCEPT !.readers = @ \ {t}]
    /\ statsResponse' = NoStatsResponse
    /\ stasks' = [stasks EXCEPT ![t] = StatsTaskIdle]
    /\ UNCHANGED <<stats, logged, notStats>>

NextStats ==
    \E t \in StatsTasks :
        \/ \E k \in DOMAIN LogRequests : LogRequest(t, LogRequests[k])
        \/ LogTotals(t)
        \/ LogByModel(t)
        \/ LogRecent(t)
        \/ LogRequestReturn(t)
        \/ handleStats(t)
        \/ StatsEncode(t)
        \/ handleStatsReturn(t)

InitStatsSpec ==
    /\ NewRegistry
    /\ last = NoCall
    /\ InitLock
    /\ InitProviders
    /\ IdleAdapter
    /\ IdleBuiltin
    /\ IdleMore

SpecStats == InitStatsSpec /\ [][NextStats]_vars

\* the last n entries of a list
LastOf(seq, n) == SubSeq(seq, Len(seq) - n + 1, Len(seq))
MinOf(a, b) == IF a < b THEN a ELSE b

\* C21: whenever no LogRequest is in progress, after n LogRequest calls
\* RecentRequests has exactly min(n, 100) entries, and they are the requests
\* logged last, in the order they were logged.
C21_RecentRequestsKeepLast ==
    statsMu.writer = "none"
    => /\ Len(stats.RecentRequests) = MinOf(Len(logged), RecentLimit)
       /\ stats.RecentRequests = LastOf(logged, MinOf(Len(logged), RecentLimit))

\* more than 100 requests were logged and the oldest are gone
C21_Witness ==
    /\ statsMu.writer = "none"
    /\ Len(logged) > RecentLimit
    /\ Len(stats.RecentRequests) = RecentLimit
    /\ stats.RecentRequests[1] = logged[Len(logged) - RecentLimit + 1]
    /\ logged[1].Provider /= logged[2].Provider

\* the sum of the values of a map[string]int64
RECURSIVE SumOf(_)
SumOf(m) ==
    IF DOMAIN m = {} THEN 0
    ELSE LET k == CHOOSE n \in DOMAIN m : TRUE
         IN  m[k] + SumOf([n \in DOMAIN m \ {k} |-> m[n]])

\* the input and output tokens of the first n requests of a list
RECURSIVE TokensOf(_, _)
TokensOf(seq, n) ==
    IF n = 0 THEN 0 ELSE seq[n].InputTokens + seq[n].OutputTokens + TokensOf(seq, n - 1)

\* the numbers of a Stats or of a StatsResponse agree with the LogRequest
\* calls that have returned
StatsAgree(st) ==
    /\ st.TotalRequests = Len(logged)
    /\ st.TotalRequests = SumOf(st.RequestsByModel)
    /\ st.TotalTokens = TokensOf(logged, Len(logged))
    /\ st.TotalTokens = SumOf(st.TokensByModel)
    /\ DOMAIN st.RequestsByModel = DOMAIN st.TokensByModel
    /\ st.RecentRequests = LastOf(logged, MinOf(Len(logged), RecentLimit))

\* C28: under every interleaving of LogRequest and handleStats calls,
\* whenever no LogRequest is in progress TotalRequests is the number of
\* LogRequest calls that have returned and the sum of RequestsByModel, and
\* TotalTokens is the sum of the tokens logged and the sum of TokensByModel;
\* and every response of handleStats shows such numbers: none shows a
\* LogRequest applied in part.
C28_StatsConsistent ==
    /\ statsMu.writer = "none" => StatsAgree(stats)
    /\ statsResponse /= NoStatsResponse => StatsAgree(statsResponse)

\* a handleStats has its response while the other task, which has logged
\* requests of two models, waits to log another
C28_Witness ==
    /\ statsResponse /= NoStatsResponse
    /\ statsResponse.TotalRequests = 2
    /\ statsResponse.TotalTokens = 4
    /\ Cardinality(DOMAIN statsResponse.RequestsByModel) = 2
    /\ \E t \in StatsTasks : stasks[t].pc = "RUnlock"

(***************************************************************************)
(* `config validate` (cmd/config.go).  The configuration is the one        *)
(* cfgMgr.Load() returned.  A provider's APIKey is an interface{}, as in   *)
(* the web UI: nil when the file names no api_key, a string, or a list.    *)
(***************************************************************************)
ValidateKeys == {Null, Str(<<>>), Str(Key9), Array(<<>>), Array(<<Str(Key9), Str(Key8)>>)}

ValidateProviders ==
    [Name : {"", "openai"}, APIBase : {"", "https://api.openai.com/v1"}, APIKey : ValidateKeys]

ValidateConfigs ==
    [Providers : UNION {[1..n -> ValidateProviders] : n \in 0..MaxConfigProviders},
     Router : [Default : {"", "openai,gpt-4o"}]]

\* provider.APIKey == "": an interface value equals a string when it holds
\* that string
IsEmptyString(key) == key /= Null /\ key.t = "str" /\ key.v = <<>>

\* the validationErrors of one provider, in the order they are appended
ProviderErrors(provider, i) ==
    (IF provider.Name = "" THEN <<[provider |-> i, what |-> "name is required"]>> ELSE <<>>)
    \o (IF provider.APIBase = ""
        THEN <<[provider |-> i, what |-> "API base URL is required"]>> ELSE <<>>)
    \o (IF IsEmptyString(provider.APIKey)
        THEN <<[provider |-> i, what |-> "API key is required"]>> ELSE <<>>)

RECURSIVE ProvidersErrors(_, _)
ProvidersErrors(Providers, i) ==
    IF i > Len(Providers) THEN <<>>
    ELSE ProviderErrors(Providers[i], i - 1) \o ProvidersErrors(Providers, i + 1)

\* the validation logic of runConfigValidate
validationErrors(cfg) ==
    (IF Len(cfg.Providers) = 0 THEN <<[what |-> "no providers configured"]>> ELSE <<>>)
    \o ProvidersErrors(cfg.Providers, 1)
    \o (IF cfg.Router.Default = ""
        THEN <<[what |-> "default router model is required"]>> ELSE <<>>)

\* runConfigValidate: exists is what cfgMgr.Exists() says, loaded whether
\* cfgMgr.Load() returned cfg or an error
runConfigValidate(exists, loadOk, cfg) ==
    /\ validation = NoValidation
    /\ validation' =
          [op |-> "validate", exists |-> exists, loaded |-> loadOk, cfg |-> cfg,
           errors |-> IF exists /\ loadOk THEN validationErrors(cfg) ELSE <<>>,
           err |-> IF ~exists THEN "no configuration found"
                   ELSE IF ~loadOk THEN "failed to load configuration"
                   ELSE IF Len(validationErrors(cfg)) > 0
                   THEN "configuration validation failed"
                   ELSE "nil"]
    /\ UNCHANGED notValidate

\* the command has ended
ValidateReturn ==
    /\ validation /= NoValidation
    /\ validation' = NoValidation
    /\ UNCHANGED notValidate

NextValidate ==
    \/ /\ validation = NoValidation
       /\ \E exists \in BOOLEAN, loadOk \in BOOLEAN, cfg \in ValidateConfigs :
              runConfigValidate(exists, loadOk, cfg)
    \/ ValidateReturn

InitValidateSpec ==
    /\ NewRegistry
    /\ last = NoCall
    /\ InitLock
    /\ InitProviders
    /\ IdleAdapter
    /\ IdleBuiltin
    /\ IdleMore

SpecValidate == InitValidateSpec /\ [][NextValidate]_vars

\* a provider has no API key configured: none named, an empty string, or a
\* pool of no keys
NoKeyConfigured(key) == key = Null \/ key.v = <<>>

Incomplete(cfg) ==
    \/ Len(cfg.Providers) = 0
    \/ \E i \in 1..Len(cfg.Providers) :
           \/ cfg.Providers[i].Name = ""
           \/ cfg.Providers[i].APIBase = ""
           \/ NoKeyConfigured(cfg.Providers[i].APIKey)
    \/ cfg.Router.Default = ""

\* C22 (as claimed): `config validate` on a configuration that was loaded
\* returns an error exactly when the configuration has no providers, or a
\* provider has no name, no API base URL or no API key configured, or the
\* default route is not set.
C22_ValidateRejectsIncomplete ==
    (validation /= NoValidation /\ validation.exists /\ validation.loaded)
    => (validation.err /= "nil" <=> Incomplete(validation.cfg))

(***************************************************************************)
(* Execute taken step by step: one loaded *Workflow, executed once or      *)
(* again, each pass through the loop body one action.  executeStep and     *)
(* handleStepError are the ones above.  run.again says that an Execute of  *)
(* the loaded workflow has returned before, run.typed that a prompt step   *)
(* has stored a value.                                                     *)
(***************************************************************************)
\* a loop that leaves out every other step
nextStepSkips(i) == i + 2

\* for i, step := range workflow.Steps: the step after the i-th
nextStep(i) == i + 1

\* a context whose Variables is the workflow's own map: a write to
\* ctx.Variables is a write to workflow.Variables
workflowAfterShared(workflow, ctx) == [workflow EXCEPT !.Variables = ctx.Variables]

\* the *Workflow after a write to ctx.Variables: ctx.Variables is the map
\* Execute made (make(Variables)) and filled from workflow.Variables, so the
\* workflow is as it was
workflowAfter(workflow, ctx) == workflow

\* a handleStepError that retries a second time when the retry fails
handleStepErrorRetriesTwice(ctx, i, step, err, retryOk, yes) ==
    IF step.OnError = "retry"
    THEN LET r == executeStep(ctx, i, step, retryOk)
         IN  IF r.err /= NoError THEN executeStep(r.ctx, i, step, retryOk) ELSE r
    ELSE handleStepError(ctx, i, step, err, retryOk, yes)

\* handleStepError as Execute calls it
stepError(ctx, i, step, err, retryOk, yes) == handleStepError(ctx, i, step, err, retryOk, yes)

\* a workflow is loaded (Manager.Load, or a built-in template)
RunLoad(workflow) ==
    /\ run = NoRun
    /\ run' = [op |-> "loaded", workflow |-> workflow, given |-> workflow, again |-> FALSE,
               typed |-> FALSE]
    /\ UNCHANGED notRun

\* NewExecutor(logger, dryRun).Execute(workflow): the context, the copy of
\* the variables
RunExecute(dryRun) ==
    /\ run /= NoRun
    /\ run.op = "loaded"
    /\ run' = [op |-> "Execute", workflow |-> run.workflow, given |-> run.given,
               again |-> run.again, typed |-> run.typed, dryRun |-> dryRun,
               ctx |-> NewContext(run.workflow), i |-> 1, pc |-> "loop", err |-> NoError]
    /\ UNCHANGED notRun

\* one pass through the body of the loop: the header, then with dryRun the
\* next step, else executeStep and, when it fails, handleStepError next
RunStep(ok) ==
    /\ run /= NoRun
    /\ run.op = "Execute"
    /\ run.pc = "loop"
    /\ run.i <= Len(run.workflow.Steps)
    /\ LET i == run.i
           step == run.workflow.Steps[i]
           shown == [run.ctx EXCEPT !.StepIndex = i, !.shown = Append(@, i)]
           r == executeStep(shown, i, step, ok)
       IN  IF run.dryRun
           THEN /\ ok
                /\ run' = [run EXCEPT !.ctx = shown, !.i = nextStep(i)]
           ELSE /\ step.Type \notin {"command", "prompt"} => ok
                /\ run' = [run EXCEPT
                              !.ctx = r.ctx,
                              !.workflow = workflowAfter(@, r.ctx),
                              !.typed = @ \/ r.ctx.Variables /= shown.Variables,
                              !.i = IF r.err /= NoError THEN i ELSE nextStep(i),
                              !.pc = IF r.err /= NoError THEN "failed" ELSE "loop",
                              !.err = r.err]
    /\ UNCHANGED notRun

\* return e.handleStepError(ctx, &step, err)
RunHandleStepError(retryOk, yes) ==
    /\ run /= NoRun
    /\ run.op = "Execute"
    /\ run.pc = "failed"
    /\ LET step == run.workflow.Steps[run.i]
           r == stepError(run.ctx, run.i, step, run.err, retryOk, yes)
       IN  /\ (step.OnError /= "retry" \/ step.Type \notin {"command", "prompt"}) => retryOk
           /\ step.OnError /= "prompt" => yes
           /\ run' = [run EXCEPT
                         !.ctx = r.ctx,
                         !.workflow = workflowAfter(@, r.ctx),
                         !.typed = @ \/ r.ctx.Variables /= run.ctx.Variables,
                         !.pc = "returned",
                         !.err = r.err]
    /\ UNCHANGED notRun

\* after the last step: "Workflow completed successfully", return nil
RunComplete ==
    /\ run /= NoRun
    /\ run.op = "Execute"
    /\ run.pc = "loop"
    /\ run.i > Len(run.workflow.Steps)
    /\ run' = [run EXCEPT !.ctx.completed = TRUE, !.pc = "returned", !.err = NoError]
    /\ UNCHANGED notRun

\* the caller has the result; the workflow stays loaded
RunReturn ==
    /\ run /= NoRun
    /\ run.op = "Execute"
    /\ run.pc = "returned"
    /\ run' = [op |-> "loaded", workflow |-> run.workflow, given |-> run.given,
               again |-> TRUE, typed |-> run.typed]
    /\ UNCHANGED notRun

\* the steps of Execute itself
RunGoesOn ==
    \/ \E ok \in BOOLEAN : RunStep(ok)
    \/ \E retryOk \in BOOLEAN, yes \in BOOLEAN : RunHandleStepError(retryOk, yes)
    \/ RunComplete

NextRun ==
    \/ /\ run = NoRun
       /\ \E workflow \in Workflows : RunLoad(workflow)
    \/ \E dryRun \in BOOLEAN : RunExecute(dryRun)
    \/ RunGoesOn
    \/ RunReturn

InitRunSpec ==
    /\ NewRegistry
    /\ last = NoCall
    /\ InitLock
    /\ InitProviders
    /\ IdleAdapter
    /\ IdleBuiltin
    /\ IdleMore

\* Execute runs on one goroutine, and a step that was started returns
SpecRun == InitRunSpec /\ [][NextRun]_vars /\ WF_vars(RunGoesOn)

RunStarted == run /= NoRun /\ run.op = "Execute"
RunReturned == RunStarted /\ run.pc = "returned"

\* how many times executeStep was called for the i-th step
TimesCalled(i) == Cardinality({k \in 1..Len(run.ctx.calls) : run.ctx.calls[k] = i})

\* C23: in an Execute without dryRun in which no step has failed, the steps
\* executed so far are the first steps of the workflow, each once and in the
\* declared order, and when Execute has returned every step was executed,
\* the workflow was reported completed and the result is nil.
C23_StepsOnceInOrder ==
    (RunStarted /\ ~run.dryRun /\ run.ctx.failures = <<>>)
    => /\ run.ctx.calls = Upto(1, Len(run.ctx.calls))
       /\ Len(run.ctx.calls) <= Len(run.workflow.Steps)
       /\ run.pc /= "returned" => ~run.ctx.completed
       /\ run.pc = "returned"
          => /\ run.ctx.calls = Upto(1, Len(run.workflow.Steps))
             /\ run.ctx.completed
             /\ run.err = NoError

\* two steps, a prompt and a command, were executed and Execute returned nil
C23_Witness ==
    /\ RunReturned
    /\ ~run.dryRun
    /\ run.ctx.failures = <<>>
    /\ Len(run.workflow.Steps) = 2
    /\ run.workflow.Steps[1].Type = "prompt"
    /\ run.workflow.Steps[2].Type = "command"
    /\ run.ctx.calls = <<1, 2>>
    /\ run.err = NoError

\* no step is executed more than twice, and there is at most one retry
RetryBounded ==
    RunStarted
    => /\ \A i \in 1..Len(run.workflow.Steps) : TimesCalled(i) <= 2
       /\ Len(run.ctx.calls) <= Len(run.workflow.Steps) + 1

\* C24: within one Execute no step is executed more than twice, and every
\* Execute returns, whatever the on_error settings and the outcomes of the
\* steps.
C24_RetryBounded == [](RetryBounded) /\ ((RunStarted /\ run.pc /= "returned") ~> RunReturned)

\* a step was executed twice, the retry failed too, and Execute has returned
C24_Witness ==
    /\ RunReturned
    /\ \E i \in 1..Len(run.workflow.Steps) :
           /\ run.workflow.Steps[i].OnError = "retry"
           /\ TimesCalled(i) = 2
           /\ run.ctx.failures = <<i, i>>
    /\ run.err /= NoError

\* C25: a run never changes the Workflow it was given: workflow.Variables is
\* as it was loaded, whatever was entered at prompt steps, and every Execute
\* starts from the variables the workflow was loaded with.
C25_WorkflowVariablesKept ==
    run /= NoRun
    => /\ run.workflow = run.given
       /\ (run.op = "Execute" /\ run.ctx.calls = <<>> /\ run.ctx.shown = <<>>)
          => run.ctx.Variables = run.given.Variables

\* the second Execute of a workflow starts after a prompt step of the first
\* has stored a value in its context
C25_Witness ==
    /\ RunStarted
    /\ run.again
    /\ run.typed
    /\ run.ctx.calls = <<>>
    /\ run.ctx.Variables = run.given.Variables
    /\ run.ctx.Variables = WorkflowVariables

(***************************************************************************)
(* substituteVariables (internal/workflow/executor.go).  A string is a     *)
(* sequence of characters, Variables a map from names to strings.  The     *)
(* range over the map visits the keys in an order the runtime chooses.     *)
(***************************************************************************)
\* the variables of one map
MaxVariables == 2

VariableNames == <<"a", "b", "c">>

\* fmt.Sprintf("{{%s}}", k)
Placeholder(k) == <<"{", "{", k, "}", "}">>

SubstValues == {<<"x">>, <<>>, Placeholder("a"), Placeholder("b")}
SubstStrings ==
    {<<"l", "s">>, Placeholder("a"), Placeholder("b"),
     Placeholder("a") \o <<"-">> \o Placeholder("b"), <<"{">> \o Placeholder("c") \o <<"}">>}

SubstVariables ==
    UNION {[names -> SubstValues] :
              names \in SUBSET {VariableNames[i] : i \in 1..MinOf(MaxVariables, Len(VariableNames))}}

\* for k, v := range vars: the orders in which the keys of a map may be visited
KeyOrders(names) ==
    {f \in [1..Cardinality(names) -> names] :
        \A i, j \in 1..Cardinality(names) : i /= j => f[i] /= f[j]}

\* strings.ReplaceAll(s, old, new) for a non-empty old: the non-overlapping
\* instances of old, found from the left, are replaced by new
RECURSIVE ReplaceAll(_, _, _)
ReplaceAll(str, old, new) ==
    IF Len(str) < Len(old) THEN str
    ELSE IF SubSeq(str, 1, Len(old)) = old
    THEN new \o ReplaceAll(SubSeq(str, Len(old) + 1, Len(str)), old, new)
    ELSE <<str[1]>> \o ReplaceAll(Tail(str), old, new)

\* the loop of substituteVariables, visiting the keys in a given order
RECURSIVE substituteInOrder(_, _, _)
substituteInOrder(result, variables, order) ==
    IF order = <<>> THEN result
    ELSE substituteInOrder(ReplaceAll(result, Placeholder(order[1]), variables[order[1]]),
                           variables, Tail(order))

\* substituteVariables(s, vars): variables is vars, and order is the order in which this call's
\* range visits the keys
substituteVariables(str, variables, order) ==
    /\ substitution = NoSubstitution
    /\ substitution' = [op |-> "substituteVariables", s |-> str, vars |-> variables,
                        order |-> order, result |-> substituteInOrder(str, variables, order)]
    /\ UNCHANGED notSubst

SubstituteReturn ==
    /\ substitution /= NoSubstitution
    /\ substitution' = NoSubstitution
    /\ UNCHANGED notSubst

NextSubst ==
    \/ /\ substitution = NoSubstitution
       /\ \E str \in SubstStrings, variables \in SubstVariables :
              \E order \in KeyOrders(DOMAIN variables) : substituteVariables(str, variables, order)
    \/ SubstituteReturn

InitSubstSpec ==
    /\ NewRegistry
    /\ last = NoCall
    /\ InitLock
    /\ InitProviders
    /\ IdleAdapter
    /\ IdleBuiltin
    /\ IdleMore

SpecSubst == InitSubstSpec /\ [][NextSubst]_vars

\* C26 (as claimed): for a string and a variable map, substituteVariables
\* returns the same result whatever the order in which the map is iterated.
C26_SubstitutionDeterministic ==
    substitution /= NoSubstitution
    => \A order \in KeyOrders(DOMAIN substitution.vars) :
           substitution.result = substituteInOrder(substitution.s, substitution.vars, order)

(***************************************************************************)
(* The workflow Manager (internal/workflow/manager.go) on its directory    *)
(* baseDir/workflows.  A path is the sequence of its elements, a name too: *)
(* <<"..", "a">> is the name "../a".  files maps the path of each file to  *)
(* its contents.  The calls are taken one at a time.                       *)
(***************************************************************************)
\* the names of workflows, in the order of their file names
StoreNames == <<<<"a">>, <<"b">>, <<"..", "a">>>>
StoreWorkflows == [Name : {StoreNames[i] : i \in DOMAIN StoreNames}, Version : {"1.0.0", "2.0.0"}]

\* NewManager(baseDir): workflowDir = filepath.Join(baseDir, "workflows")
workflowDir == <<"base", "workflows">>

\* filepath.Clean on the elements of a path: "x/.." is dropped
RECURSIVE Clean(_, _)
Clean(done, rest) ==
    IF rest = <<>> THEN done
    ELSE IF rest[1] = ".." /\ done /= <<>>
    THEN Clean(SubSeq(done, 1, Len(done) - 1), Tail(rest))
    ELSE Clean(Append(done, rest[1]), Tail(rest))

\* filepath.Join(m.workflowDir, name+".json"): the directory, the base name
\* of the file, and its extension
workflowPath(name) ==
    LET elems == Clean(<<>>, workflowDir \o name)
    IN  [dir |-> SubSeq(elems, 1, Len(elems) - 1), base |-> <<elems[Len(elems)]>>,
         ext |-> ".json"]

\* json.MarshalIndent(workflow): the fields by their JSON names;
\* json.Unmarshal(data, &workflow): the fields read back by those names
Marshal(workflow) == <<<<"name", workflow.Name>>, <<"version", workflow.Version>>>>
Field(data, key) == data[CHOOSE i \in DOMAIN data : data[i][1] = key][2]
Unmarshal(data) == [Name |-> Field(data, "name"), Version |-> Field(data, "version")]

WriteFile(path, data) ==
    [f \in DOMAIN files \cup {path} |-> IF f = path THEN data ELSE files[f]]
Remove(path) == [f \in DOMAIN files \ {path} |-> files[f]]

\* Load(name): the result
load(name) ==
    IF workflowPath(name) \in DOMAIN files
    THEN [workflow |-> Unmarshal(files[workflowPath(name)]), err |-> "nil"]
    ELSE [err |-> "read workflow file"]

\* Save(workflow)
ManagerSave(workflow) ==
    /\ mlast = NoManagerCall
    /\ files' = WriteFile(workflowPath(workflow.Name), Marshal(workflow))
    /\ mlast' = [op |-> "Save", workflow |-> workflow, err |-> "nil"]
    /\ stored' = [n \in DOMAIN stored \cup {workflow.Name} |->
                    IF n = workflow.Name THEN workflow ELSE stored[n]]
    /\ UNCHANGED notStore

\* Load(name)
ManagerLoad(name) ==
    /\ mlast = NoManagerCall
    /\ mlast' = [op |-> "Load", name |-> name, result |-> load(name)]
    /\ UNCHANGED <<files, stored, notStore>>

\* os.ReadDir(m.workflowDir): the entries of the directory with the
\* extension .json, by file name; entry.Name()[:len-5] is the name loaded
RECURSIVE listFrom(_)
listFrom(i) ==
    IF i > Len(StoreNames) THEN <<>>
    ELSE LET path == [dir |-> workflowDir, base |-> StoreNames[i], ext |-> ".json"]
         IN  (IF Len(StoreNames[i]) = 1 /\ path \in DOMAIN files /\ load(path.base).err = "nil"
              THEN <<load(path.base).workflow>> ELSE <<>>)
             \o listFrom(i + 1)

\* List()
ManagerList ==
    /\ mlast = NoManagerCall
    /\ mlast' = [op |-> "List", workflows |-> listFrom(1), err |-> "nil"]
    /\ UNCHANGED <<files, stored, notStore>>

\* Delete(name): os.Remove(path)
ManagerDelete(name) ==
    /\ mlast = NoManagerCall
    /\ files' = IF workflowPath(name) \in DOMAIN files THEN Remove(workflowPath(name)) ELSE files
    /\ mlast' = [op |-> "Delete", name |-> name, wasStored |-> name \in DOMAIN stored,
                 before |-> files, after |-> files',
                 err |-> IF workflowPath(name) \in DOMAIN files THEN "nil"
                         ELSE "delete workflow"]
    /\ stored' = IF workflowPath(name) \in DOMAIN files
                 THEN [n \in DOMAIN stored \ {name} |-> stored[n]]
                 ELSE stored
    /\ UNCHANGED notStore

ManagerReturn ==
    /\ mlast /= NoManagerCall
    /\ mlast' = NoManagerCall
    /\ UNCHANGED <<files, stored, notStore>>

NextStore ==
    \/ \E workflow \in StoreWorkflows : ManagerSave(workflow)
    \/ \E i \in DOMAIN StoreNames : ManagerLoad(StoreNames[i])
    \/ ManagerList
    \/ \E i \in DOMAIN StoreNames : ManagerDelete(StoreNames[i])
    \/ ManagerReturn

InitStoreSpec ==
    /\ NewRegistry
    /\ last = NoCall
    /\ InitLock
    /\ InitProviders
    /\ IdleAdapter
    /\ IdleBuiltin
    /\ IdleMore

SpecStore == InitStoreSpec /\ [][NextStore]_vars

\* C27 (as claimed): after any sequence of successful Save and Delete calls,
\* Load(name) succeeds exactly for the names whose last operation was a Save
\* and returns the workflow saved last under the name; List returns exactly
\* those workflows; and Delete of a name that is not stored returns an error
\* and changes nothing.
C27_StorageAgrees ==
    /\ mlast.op = "Load"
       => /\ mlast.result.err = "nil" <=> mlast.name \in DOMAIN stored
          /\ mlast.result.err = "nil" => mlast.result.workflow = stored[mlast.name]
    /\ mlast.op = "List"
       => {mlast.workflows[i] : i \in DOMAIN mlast.workflows}
             = {stored[n] : n \in DOMAIN stored}
    /\ (mlast.op = "Delete" /\ ~mlast.wasStored)
       => /\ mlast.err /= "nil"
          /\ mlast.after = mlast.before

(***************************************************************************)
(* The live configuration under /api/config, and the start-time map under  *)
(* parallel requests.                                                      *)
(***************************************************************************)
\* C29 (as claimed): after any number of handleConfig calls the
\* configuration the config manager returns holds every provider's API key
\* and the router's API key as they were loaded.
C29_ConfigNotModified ==
    configResponse /= NoResponse
    => /\ Len(ConfigGet.Providers) = Len(loaded.Providers)
       /\ \A i \in 1..Len(loaded.Providers) :
              ConfigGet.Providers[i].APIKey = loaded.Providers[i].APIKey
       /\ ConfigGet.APIKey = loaded.APIKey

\* C30 (as claimed): the process is never ended by a race on p.startTimes:
\* at no time are two tasks writing the map, nor is one about to read it
\* while another writes it.
C30_NoConcurrentMapAccess ==
    /\ ~down
    /\ Cardinality(TimesWriters) <= 1
    /\ \A t \in Tasks : tasks[t].pc = "mapaccess" => TimesWriters = {}

(***************************************************************************)
(* AnthropicProvider.IsStreaming (internal/providers/anthropic.go) on the  *)
(* headers of an upstream response: a map from header names to the lists   *)
(* of their values.  A value is a sequence of characters.                  *)
(***************************************************************************)
\* the values one header has
MaxHeaderValues == 2

EventStream == <<"t", "e", "x", "t", "/", "e", "v", "e", "n", "t", "-", "s", "t", "r", "e", "a", "m">>
EventStreamUTF8 == <<"t", "e", "x", "t", "/", "e", "v", "e", "n", "t", "-", "s", "t", "r", "e", "a", "m", ";", " ", "c", "h", "a", "r", "s", "e", "t", "=", "u", "t", "f", "-", "8">>
ApplicationJSON == <<"a", "p", "p", "l", "i", "c", "a", "t", "i", "o", "n", "/", "j", "s", "o", "n">>
OctetStream == <<"a", "p", "p", "l", "i", "c", "a", "t", "i", "o", "n", "/", "o", "c", "t", "e", "t", "-", "s", "t", "r", "e", "a", "m">>

ContentTypes == {EventStream, EventStreamUTF8, ApplicationJSON, OctetStream}

\* the names under which a map may hold the content type: the canonical
\* form net/http gives the keys of a parsed response, and the form a map
\* built by hand or taken from HTTP/2 frames has
ContentTypeNames == {"Content-Type", "content-type"}

HeaderValues == UNION {[1..n -> ContentTypes] : n \in 0..MaxHeaderValues}
Headers == UNION {[names -> HeaderValues] : names \in SUBSET ContentTypeNames}

\* IsStreaming(headers): headers["Content-Type"] holds a value that is
\* "text/event-stream" or contains "stream"
AnthropicIsStreaming(headers) ==
    /\ "Content-Type" \in DOMAIN headers
    /\ \E i \in DOMAIN headers["Content-Type"] :
           \/ headers["Content-Type"][i] = EventStream
           \/ Contains(headers["Content-Type"][i], <<"s", "t", "r", "e", "a", "m">>)

IsStreaming(headers) ==
    /\ hook' = [name |-> "IsStreaming", in |-> headers, state |-> streamState,
                out |-> AnthropicIsStreaming(headers)]
    /\ UNCHANGED <<streamState, notAdapter>>

\* the proxy has the answer
IsStreamingReturn ==
    /\ hook /= NoHook
    /\ hook' = NoHook
    /\ UNCHANGED <<streamState, notAdapter>>

\* one response at a time
NextIsStreaming ==
    \/ /\ hook = NoHook
       /\ \E headers \in Headers : IsStreaming(headers)
    \/ IsStreamingReturn

InitIsStreamingSpec ==
    /\ NewRegistry
    /\ last = NoCall
    /\ InitLock
    /\ InitProviders
    /\ IdleAdapter
    /\ IdleBuiltin
    /\ IdleMore

SpecIsStreaming == InitIsStreamingSpec /\ [][NextIsStreaming]_vars

\* the media type of a Content-Type value is text/event-stream
IsEventStream(value) ==
    \/ value = EventStream
    \/ /\ Len(value) > Len(EventStream)
       /\ SubSeq(value, 1, Len(EventStream)) = EventStream
       /\ value[Len(EventStream) + 1] = ";"

\* the response is a Server-Sent Events stream: its content type, under
\* whatever case of the header name, is text/event-stream
IsSSE(headers) ==
    \E name \in DOMAIN headers : \E i \in DOMAIN headers[name] : IsEventStream(headers[name][i])

\* C31 (as claimed): IsStreaming returns true exactly when the response is a
\* Server-Sent Events stream: true when the content type is
\* text/event-stream, whatever the letter case of the header name, and false
\* for every other content type, application/json and
\* application/octet-stream among them.
C31_IsStreamingExactlySSE ==
    hook.name = "IsStreaming" => (hook.out <=> IsSSE(hook.in))

====
